---- MODULE Spec2Model ----
(***************************************************************************)
(* Device-lifecycle reconciliation as implemented by the dashboard scripts *)
(* (QQQQ.py, api.py, vf1.py, data.py, data1.py, App3.py, lire1.py,         *)
(* lire2.py, data3.py, Données.py, réclamation.py).  Tables are sequences   *)
(* of records, a pandas DataFrame being an ordered list of rows.           *)
(***************************************************************************)
EXTENDS Integers, Sequences, FiniteSets, TLC

VARIABLES
    \* QQQQ.py / api.py : the three sheets and the merged tables
    df_install, df_incidents, df_retours, df_final, merged,
    \* vf1.py / data1.py / data.py / App3.py : the single sheet and what the
    \* preparation step returned
    df, prepared,
    \* lire1.py / lire2.py / data3.py / api.py : one serial-number cell and what
    \* the function applied to it gave
    num_serie, statut,
    \* lire1.py / lire2.py : one cell of a date column, and what
    \* convert_date_format made of it
    date_str, converted,
    \* lire1.py / lire2.py : the uploaded file, the table at the end of the
    \* last run of the script, and what that run wrote on the page
    uploaded_file, lire_df, messages,
    \* lire1.py / lire2.py : the same file with its rows in another order, and
    \* the table at the end of the script's run on it
    permuted_file, permuted_df

mergeVars == <<df_install, df_incidents, df_retours, df_final, merged>>
ttfVars == <<df, prepared>>
serialVars == <<num_serie, statut, date_str, converted>>
lireVars == <<uploaded_file, lire_df, messages, permuted_file, permuted_df>>

vars == <<mergeVars, ttfVars, serialVars, lireVars>>

\* What each script leaves alone: the state of the other scripts.
notMerge == <<ttfVars, serialVars, lireVars>>
notTTF == <<mergeVars, serialVars, lireVars>>
notSerial == <<mergeVars, ttfVars, lireVars>>
notLire == <<mergeVars, ttfVars, serialVars>>

-----------------------------------------------------------------------------
(* Cell values.                                                            *)

\* An empty text cell (NaN / None in an object column).
NULL == "NaN"
\* An empty date cell (pandas NaT).  Dates are day numbers >= 0.
NaT == -1
\* A date cell holding text that no parser accepts.
BadDate == -2
\* A missing number (float NaN); a present number v is <<v>>.
NaN == <<>>
Num(v) == <<v>>
\* What a processing function handed back: nothing yet, None (it reported an
\* error), or a table.
Idle == [st |-> "idle"]
None == [st |-> "none"]
Table(rows) == [st |-> "ok", rows |-> rows]

\* A cell of a serial-number column: text (a sequence of characters), an
\* integer, a float with an integral value, or empty.
Text(chars) == [kind |-> "str", chars |-> chars]
IntCell(n) == [kind |-> "int", n |-> n]
FloatCell(n) == [kind |-> "float", n |-> n]
NaNCell == [kind |-> "nan"]

\* The parts of the state a script does not use.
MergeIdle ==
    /\ df_install = <<>> /\ df_incidents = <<>> /\ df_retours = <<>>
    /\ df_final = Idle /\ merged = Idle
TTFIdle == df = <<>> /\ prepared = Idle
SerialIdle ==
    /\ num_serie = NaNCell /\ statut = Idle
    /\ date_str = NaNCell /\ converted = Idle
LireIdle ==
    /\ uploaded_file = Idle /\ lire_df = Idle /\ messages = Idle
    /\ permuted_file = Idle /\ permuted_df = Idle

SeqsUpTo(S, n) == UNION {[1..k -> S] : k \in 0..n}

\* pd.to_datetime(col, errors='coerce') on one cell.
ToDatetimeCoerce(c) == IF c = BadDate THEN NaT ELSE c

\* (a - b).dt.days for two datetime cells: NaN when either is NaT.
DaysBetween(a, b) == IF a = NaT \/ b = NaT THEN NaN ELSE Num(a - b)

RECURSIVE SeqMax(_)
SeqMax(s) == IF s = <<>> THEN NaT
             ELSE LET m == SeqMax(Tail(s)) IN IF Head(s) > m THEN Head(s) ELSE m

\* Non-null cells of a column, in row order.
NonNull(col) == SelectSeq(col, LAMBDA c : c # NULL)

\* GroupBy 'last': the last non-null cell of the group, None when there is none.
LastNonNull(col) == LET nn == NonNull(col) IN IF nn = <<>> THEN NULL ELSE nn[Len(nn)]

-----------------------------------------------------------------------------
(* QQQQ.py and api.py : merging installations, incidents and returns.      *)

MaxInstall == 2
MaxInc == 2
MaxRet == 2

Serials == {"S1", "S2"}
\* Lexicographic order of the serial values, as sort/groupby order them.
SerialOrder == <<"S1", "S2">>
SerialRank(s) == CHOOSE i \in 1..Len(SerialOrder) : SerialOrder[i] = s

\* Rows of Feuil1, Feuil2, Feuil3: the serial of an installation or incident
\* row and the incident or RMA cell may be empty; the return rows tried all
\* carry the serial S1, so that two of them are rows of one serial.
InstallRows == [serie : Serials \cup {NULL}, dinst : {10}, dconn : {20}]
IncidentRows == [serie : Serials \cup {NULL}, incident : {"panne", NULL}, dinc : {15}]
RetourRows == [serie : {"S1"}, RMA : {"R1", NULL}, dret : {18}]
\* datetime.now() as a day number.
Clock == {30, 31}

\* The date clean-up loop of QQQQ.process_data.
CleanInstall(t) == [i \in 1..Len(t) |->
    [t[i] EXCEPT !.dinst = ToDatetimeCoerce(@), !.dconn = ToDatetimeCoerce(@)]]
CleanIncidents(t) == [i \in 1..Len(t) |-> [t[i] EXCEPT !.dinc = ToDatetimeCoerce(@)]]
CleanRetours(t) == [i \in 1..Len(t) |-> [t[i] EXCEPT !.dret = ToDatetimeCoerce(@)]]

\* Keys of groupby('no de série'): the non-null serials, each once, sorted.
GroupKeysUnsorted(t) == {t[i].serie : i \in 1..Len(t)} \ {NULL}
RECURSIVE SortKeys(_)
SortKeys(K) == IF K = {} THEN <<>>
               ELSE LET k == CHOOSE x \in K : \A y \in K : SerialRank(x) <= SerialRank(y)
                    IN <<k>> \o SortKeys(K \ {k})
GroupKeys(t) == SortKeys(GroupKeysUnsorted(t))

GroupOf(t, k) == SelectSeq(t, LAMBDA r : r.serie = k)
Column(t, f) == [i \in 1..Len(t) |-> t[i][f]]

incidents_agg(t) == LET keys == GroupKeys(t) IN
    [i \in 1..Len(keys) |->
        LET g == GroupOf(t, keys[i]) IN
        [serie |-> keys[i],
         nombre_incidents |-> Num(Len(NonNull(Column(g, "incident")))),
         dernier_incident |-> SeqMax(Column(g, "dinc"))]]

\* A mutation: the return rows as they are, one summary row for each.
retours_par_ligne(t) ==
    LET g == SelectSeq(t, LAMBDA r : r.serie # NULL)
    IN [i \in 1..Len(g) |->
          [serie |-> g[i].serie,
           nombre_retours |-> Num(Len(NonNull(<<g[i].RMA>>))),
           dernier_retour |-> g[i].dret,
           RMA |-> g[i].RMA]]
retours_agg(t) == LET keys == GroupKeys(t) IN
    [i \in 1..Len(keys) |->
        LET g == GroupOf(t, keys[i]) IN
        [serie |-> keys[i],
         nombre_retours |-> Num(Len(NonNull(Column(g, "RMA")))),
         dernier_retour |-> SeqMax(Column(g, "dret")),
         RMA |-> LastNonNull(Column(g, "RMA"))]]

\* The dtype read_excel gives the serial column of a sheet: float64 when the
\* sheet has rows and every serial cell is empty, object otherwise (a sheet
\* with no row, or with a text serial).  groupby(...).reset_index() keeps it as
\* the dtype of the key column of the summary.
KeyDtype(t) ==
    IF t # <<>> /\ (\A i \in 1..Len(t) : t[i].serie = NULL) THEN "float64" ELSE "object"

\* What merge gives: it raised ValueError, or the joined rows.
Raised == [raised |-> TRUE]
Joined(rows) == [raised |-> FALSE, rows |-> rows]

\* DataFrame.merge(right, on/left_on/right_on the serial, how='left').  The key
\* columns are compared first (_maybe_coerce_merge_keys): unless exactly one of
\* the two tables has no row, a float64 key against an object key raises
\* ValueError.  Otherwise: every left row, in order, once per right row with an
\* equal key (null keys equal each other), or once with empty right cells when
\* there is none.  lk and rk are the dtypes of the two key columns.
LeftMerge(left, lk, right, rk, empty) ==
    LET RECURSIVE From(_)
        From(i) ==
            IF i > Len(left) THEN <<>>
            ELSE LET m == SelectSeq(right, LAMBDA r : r.serie = left[i].serie)
                     rows == IF m = <<>> THEN <<left[i] @@ empty>>
                             ELSE [j \in 1..Len(m) |-> left[i] @@ m[j]]
                 IN rows \o From(i + 1)
    IN IF ((left = <<>>) <=> (right = <<>>)) /\ lk # rk
       THEN Raised
       ELSE Joined(From(1))

EmptyIncAgg == [nombre_incidents |-> NaN, dernier_incident |-> NaT]
EmptyRetAgg == [nombre_retours |-> NaN, dernier_retour |-> NaT, RMA |-> NULL]

\* A mutation: the missing counts are filled with 1.
FillNa1(x) == IF x = NaN THEN 1 ELSE x[1]
\* fillna(0) on one cell of a count column.
FillNa0(x) == IF x = NaN THEN 0 ELSE x[1]

\* A mutation: the flag looks at the incidents alone.
QQQQ_CalculsSansRetours(r, now1, now2) ==
    LET ni == FillNa0(r.nombre_incidents)
        nr == FillNa0(r.nombre_retours)
    IN [r EXCEPT !.nombre_incidents = ni, !.nombre_retours = nr] @@
       [duree_depuis_installation |-> DaysBetween(now1, r.dinst),
        jours_inactivite |-> DaysBetween(now2, r.dconn),
        a_incident_sans_retour |-> (ni > 0)]

\* QQQQ.process_data, lines 49-54, on one merged row.  datetime.now() is read
\* once for each of the two durations: now1 at line 52, now2 at line 53.
QQQQ_Calculs(r, now1, now2) ==
    LET ni == FillNa0(r.nombre_incidents)
        nr == FillNa0(r.nombre_retours)
    IN [r EXCEPT !.nombre_incidents = ni, !.nombre_retours = nr] @@
       [duree_depuis_installation |-> DaysBetween(now1, r.dinst),
        jours_inactivite |-> DaysBetween(now2, r.dconn),
        a_incident_sans_retour |-> (ni > 0 /\ nr = 0)]

\* QQQQ.process_data: the merged table, or None when a merge raised (the
\* except clause shows the error and returns None).
QQQQ_process_data(inst, inc, ret, now1, now2) ==
    LET i1 == CleanInstall(inst)
        i2 == CleanIncidents(inc)
        i3 == CleanRetours(ret)
        m1 == LeftMerge(i1, KeyDtype(i1), incidents_agg(i2), KeyDtype(i2), EmptyIncAgg)
        m2 == IF m1.raised THEN Raised
              ELSE LeftMerge(m1.rows, KeyDtype(i1), retours_agg(i3), KeyDtype(i3),
                             EmptyRetAgg)
    IN IF m2.raised THEN None
       ELSE Table([i \in 1..Len(m2.rows) |-> QQQQ_Calculs(m2.rows[i], now1, now2)])

\* api.process_data: the raw sheets are joined, not their per-serial summaries,
\* and an exception of merge leaves the function.
EmptyInc == [incident |-> NULL, dinc |-> NaT]
EmptyRma == [RMA |-> NULL, dret |-> NaT]
api_Row(r) ==
    LET di == ToDatetimeCoerce(r.dinst)
        dc == ToDatetimeCoerce(r.dinc)
        dr == ToDatetimeCoerce(r.dret)
    IN [r EXCEPT !.dinst = di, !.dinc = dc, !.dret = dr] @@ [ttf |-> DaysBetween(dc, di)]
api_process_data(df_inst, df_inc, df_rma) ==
    LET m1 == LeftMerge(df_inst, KeyDtype(df_inst), df_inc, KeyDtype(df_inc), EmptyInc)
        m2 == IF m1.raised THEN Raised
              ELSE LeftMerge(m1.rows, KeyDtype(df_inst), df_rma, KeyDtype(df_rma),
                             EmptyRma)
    IN IF m2.raised THEN Raised
       ELSE Joined([i \in 1..Len(m2.rows) |-> api_Row(m2.rows[i])])

-----------------------------------------------------------------------------
(* vf1.py, data1.py, data.py, App3.py : time to failure and ages.          *)

MaxRecs == 1

\* days since 1970-01-01 of a calendar date, as Timestamp subtraction counts them
DaysFromCivil(y, m, d) ==
    LET yy == IF m <= 2 THEN y - 1 ELSE y
        era == yy \div 400
        yoe == yy - era * 400
        mp == IF m > 2 THEN m - 3 ELSE m + 9
        doy == (153 * mp + 2) \div 5 + d - 1
        doe == yoe * 365 + yoe \div 4 - yoe \div 100 + doy
    IN era * 146097 + doe - 719468

D_2018_01_01 == DaysFromCivil(2018, 1, 1)
D_2018_02_01 == DaysFromCivil(2018, 2, 1)
D_2019_06_01 == DaysFromCivil(2019, 6, 1)
SheetDates == {D_2018_01_01, D_2018_02_01, D_2019_06_01}
\* A date cell of the sheet: a date, empty, or unparseable text.
DateCells == SheetDates \cup {NaT, BadDate}
Today == {DaysFromCivil(2026, 1, 1), DaysFromCivil(2026, 1, 2)}

SheetRows == [SN : {NULL, "0118001"}, FabricationDate : DateCells,
              installationDate : DateCells, incidentDate : DateCells,
              Lastconnexion : {NaT}]

DateCols == <<"FabricationDate", "installationDate", "incidentDate", "Lastconnexion">>

\* days / 30.44 kept exact: the pair <<numerator, denominator>>.
Months(x) == IF x = NaN THEN NaN ELSE <<x[1] * 100, 3044>>
\* `x > 0` on a float column: False on NaN.
Positive(x) == x # NaN /\ x[1] > 0

\* for col in date_cols: df[col] = pd.to_datetime(df[col], errors='coerce')
ConvertDates(r) == [r EXCEPT !.FabricationDate = ToDatetimeCoerce(@),
                             !.installationDate = ToDatetimeCoerce(@),
                             !.incidentDate = ToDatetimeCoerce(@),
                             !.Lastconnexion = ToDatetimeCoerce(@)]

ttf_inst(r) == Months(DaysBetween(r.incidentDate, r.installationDate))
ttf_fab(r) == Months(DaysBetween(r.incidentDate, r.FabricationDate))

\* vf1.py lines 83-87, on one row with converted dates.
vf1_TTF(r) ==
    IF r.incidentDate # NaT
    THEN (IF Positive(ttf_inst(r)) THEN ttf_inst(r) ELSE ttf_fab(r))
    ELSE NaN

\* data1.py line 81.
data1_TTF(r) == IF Positive(ttf_inst(r)) THEN ttf_inst(r) ELSE ttf_fab(r)

\* DataFrame.max(axis=1) over two float columns with the same unit: NaN is skipped.
RowMax(a, b) == IF a = NaN THEN b ELSE IF b = NaN THEN a
                ELSE IF a[1] >= b[1] THEN a ELSE b
\* data.py line 162.
data_TTF(r) == RowMax(ttf_inst(r), ttf_fab(r))

Ages(r, today) ==
    [Age_installation |-> Months(DaysBetween(today, r.installationDate)),
     Age_fabrication |-> Months(DaysBetween(today, r.FabricationDate))]

vf1_clean_and_prepare_data(t, today) ==
    [i \in 1..Len(t) |->
        LET r == ConvertDates(t[i])
        IN r @@ [Time_to_Failure |-> vf1_TTF(r)] @@ Ages(r, today)]

data1_clean_and_prepare_data(t, today) ==
    [i \in 1..Len(t) |->
        LET r == ConvertDates(t[i])
        IN r @@ [Time_to_Failure |-> data1_TTF(r)] @@ Ages(r, today)]

\* df.dropna(how='all'): rows whose every cell is empty are removed.
AllEmpty(r) == r.SN = NULL /\ \A i \in 1..Len(DateCols) : r[DateCols[i]] = NaT
DropNaAll(t) == SelectSeq(t, LAMBDA r : ~AllEmpty(r))

\* df[col].isna().sum() after the conversion, per date column.
InvalidDates(rows) ==
    [i \in 1..Len(DateCols) |->
        Len(SelectSeq(rows, LAMBDA r : r[DateCols[i]] = NaT))]

data_Row(r0, today) ==
    LET r == ConvertDates(r0)
    IN r @@ [TTF_installation |-> ttf_inst(r), TTF_fabrication |-> ttf_fab(r),
             Time_to_Failure_months |-> data_TTF(r),
             Age_depuis_installation_months |->
                 Months(DaysBetween(today, r.installationDate)),
             Age_depuis_fabrication_months |->
                 Months(DaysBetween(today, r.FabricationDate))]

\* data.prepare_data: the returned table and the warnings it showed.
data_prepare_data(t, today) ==
    LET kept == DropNaAll(t)
        rows == [i \in 1..Len(kept) |-> data_Row(kept[i], today)]
    IN [rows |-> rows, invalid_dates |-> InvalidDates(rows)]

\* App3.detect_and_convert_dates on one column: the converted cells and whether
\* the column is reported as a date column.  A column of dates and empty cells
\* is taken as it is; one that holds other text is coerced cell by cell and is
\* reported only when some cell is a date afterwards.
DetectColumn(cells) ==
    LET conv == [i \in 1..Len(cells) |-> ToDatetimeCoerce(cells[i])]
        typed == \A i \in 1..Len(cells) : cells[i] # BadDate
    IN [cells |-> conv,
        isdate |-> typed \/ \E i \in 1..Len(conv) : conv[i] # NaT]
\* The serial column is text that parses under no pattern: the fall-back
\* conversion empties it, unless the column was empty already.
DetectSN(cells) ==
    [cells |-> [i \in 1..Len(cells) |-> NULL],
     isdate |-> \A i \in 1..Len(cells) : cells[i] = NULL]

detect_and_convert_dates(t) ==
    LET sn == DetectSN(Column(t, "SN"))
        col(i) == DetectColumn(Column(t, DateCols[i]))
    IN [df |-> [i \in 1..Len(t) |->
                  [SN |-> sn.cells[i],
                   FabricationDate |-> col(1).cells[i],
                   installationDate |-> col(2).cells[i],
                   incidentDate |-> col(3).cells[i],
                   Lastconnexion |-> col(4).cells[i]]],
        date_cols |-> {DateCols[i] : i \in {j \in 1..Len(DateCols) : col(j).isdate}}
                      \cup (IF sn.isdate THEN {"SN"} ELSE {})]

InitTTF ==
    /\ df \in SeqsUpTo(SheetRows, MaxRecs)
    /\ prepared = Idle
    /\ MergeIdle /\ SerialIdle /\ LireIdle

\* A run of vf1.py: the file does not compile (SyntaxError at line 267, a '}'
\* closing a '('), so nothing of the script is executed and no table is
\* prepared.
vf1_Script ==
    /\ prepared.st = "idle"
    /\ prepared' = [st |-> "raised", by |-> "vf1.py"]
    /\ UNCHANGED <<df, notTTF>>

\* A run of App3.py: st.set_page_config is called at line 10 with a keyword it
\* does not have (page_uploader), which raises TypeError before any function
\* of the script is defined; the script body of lines 52-98 is never reached.
App3_Script ==
    /\ prepared.st = "idle"
    /\ prepared' = [st |-> "raised", by |-> "App3.py"]
    /\ UNCHANGED <<df, notTTF>>

\* clean_and_prepare_data of vf1.py, the function as it is written, called on
\* a table: the caller's table is the one that gets the new columns.  `passed`
\* is the table as it was handed to the function, `left` the same table object
\* when the function has returned.
vf1_Prepare ==
    /\ prepared.st = "idle"
    /\ \E today \in Today :
         LET out == vf1_clean_and_prepare_data(df, today)
         IN df' = out /\ prepared' = [st |-> "ok", by |-> "vf1", rows |-> out,
                                      passed |-> df, left |-> out]
    /\ UNCHANGED notTTF

data1_Run ==
    /\ prepared.st = "idle"
    /\ \E today \in Today :
         LET out == data1_clean_and_prepare_data(df, today)
         IN df' = out /\ prepared' = [st |-> "ok", by |-> "data1", rows |-> out]
    /\ UNCHANGED notTTF

\* data.py: dropna hands prepare_data a new table, the caller's one is kept.
data_Run ==
    /\ prepared.st = "idle"
    /\ \E today \in Today :
         LET out == data_prepare_data(df, today)
         IN prepared' = [st |-> "ok", by |-> "data", rows |-> out.rows,
                         invalid_dates |-> out.invalid_dates,
                         passed |-> df, left |-> df]
    /\ UNCHANGED <<df, notTTF>>

\* detect_and_convert_dates of App3.py, the function as it is written, called
\* on a table: the columns are converted in the caller's table.
App3_Convert ==
    /\ prepared.st = "idle"
    /\ LET det == detect_and_convert_dates(df)
       IN df' = det.df /\ prepared' = [st |-> "ok", by |-> "App3", rows |-> det.df,
                                       date_cols |-> det.date_cols,
                                       passed |-> df, left |-> det.df]
    /\ UNCHANGED notTTF

\* The time-to-failure cell of a prepared row, under the name each script gives it.
TTFOf(r) == IF "Time_to_Failure" \in DOMAIN r THEN r.Time_to_Failure
            ELSE r.Time_to_Failure_months
\* The reference date of the design: installation if present, else fabrication.
ReferenceDate(r) == IF r.installationDate # NaT THEN r.installationDate
                    ELSE r.FabricationDate
\* x is the number d, as whole days or as the same number over a denominator.
EqualsNumber(x, d) == x # NaN /\ (IF Len(x) = 1 THEN x[1] = d ELSE x[1] = d * x[2])

\* C3: in the tables prepared by clean_and_prepare_data of vf1.py and by
\* data.py, the time to failure is null for every row without an incident
\* date and non-null for every row with an incident date.  A row with an
\* incident date and no date to count from, neither installation nor
\* fabrication, is left aside: there is nothing to subtract.
Cex_C3 ==
    (prepared.st = "ok" /\ prepared.by \in {"vf1", "data"}) =>
        \A i \in 1..Len(prepared.rows) :
            LET r == prepared.rows[i]
            IN /\ r.incidentDate = NaT => TTFOf(r) = NaN
               /\ (r.incidentDate # NaT
                     /\ (r.installationDate # NaT \/ r.FabricationDate # NaT))
                     => TTFOf(r) # NaN

\* C4: for every prepared row with an incident date, the time to failure is
\* the whole-day difference between the incident date and the reference date
\* (installation date if present, fabrication date otherwise).
Cex_C4 ==
    (prepared.st = "ok" /\ prepared.by = "vf1") =>
        \A i \in 1..Len(prepared.rows) :
            LET r == prepared.rows[i]
            IN (r.incidentDate # NaT /\ ReferenceDate(r) # NaT) =>
                   EqualsNumber(TTFOf(r), r.incidentDate - ReferenceDate(r))

\* Columns of a table prepared by vf1.py or data1.py: those of the sheet, the
\* time to failure and the two ages.
PreparedColumns == {"SN", "FabricationDate", "installationDate", "incidentDate",
                    "Lastconnexion", "Time_to_Failure", "Age_installation",
                    "Age_fabrication"}

\* C5: in the tables prepared by vf1.py and data1.py, a row whose incident
\* date precedes its reference date keeps the negative time to failure
\* computed from that reference date and carries an anomaly flag.
Cex_C5 ==
    (prepared.st = "ok" /\ prepared.by \in {"vf1", "data1"}) =>
        \A i \in 1..Len(prepared.rows) :
            LET r == prepared.rows[i]
            IN (/\ r.incidentDate # NaT /\ ReferenceDate(r) # NaT
                /\ r.incidentDate < ReferenceDate(r)) =>
                   /\ TTFOf(r) = Months(Num(r.incidentDate - ReferenceDate(r)))
                   /\ DOMAIN r \ PreparedColumns # {}

-----------------------------------------------------------------------------
(* lire1.py, lire2.py, data3.py, api.py : the serial number.  A string is  *)
(* a sequence of characters; "sup1" is the superscript digit one, "sub1"   *)
(* the subscript digit one, "circ1" the circled digit one.                 *)

AsciiDigits == <<"0", "1", "2", "3", "4", "5", "6", "7", "8", "9">>
Superscripts == <<"sup0", "sup1", "sup2", "sup3", "sup4", "sup5", "sup6", "sup7",
                  "sup8", "sup9">>
Subscripts == <<"sub0", "sub1", "sub2", "sub3", "sub4", "sub5", "sub6", "sub7",
                "sub8", "sub9">>
\* Characters for which str.isdigit() is true and int() raises, outside both tables.
OtherDigitGlyphs == {"circ1"}

Range(f) == {f[i] : i \in DOMAIN f}
IndexIn(seq, c) == CHOOSE i \in DOMAIN seq : seq[i] = c

\* c.isdigit()
IsDigitChar(c) == c \in Range(AsciiDigits) \cup Range(Superscripts)
                        \cup Range(Subscripts) \cup OtherDigitGlyphs
\* int(c) succeeds: c is a decimal digit.
IsDecimal(c) == c \in Range(AsciiDigits)
DigitValue(c) == IndexIn(AsciiDigits, c) - 1

RECURSIVE DigitsOf(_)
DigitsOf(n) == IF n < 10 THEN <<AsciiDigits[n + 1]>>
               ELSE DigitsOf(n \div 10) \o <<AsciiDigits[(n % 10) + 1]>>

\* str(value)
Str(x) == CASE x.kind = "str" -> x.chars
            [] x.kind = "int" -> DigitsOf(x.n)
            [] x.kind = "float" -> DigitsOf(x.n) \o <<".", "0">>
            [] OTHER -> <<"n", "a", "n">>

RECURSIVE LStrip(_)
LStrip(s) == IF s # <<>> /\ Head(s) = " " THEN LStrip(Tail(s)) ELSE s
RECURSIVE RStrip(_)
RStrip(s) == IF s # <<>> /\ s[Len(s)] = " " THEN RStrip(SubSeq(s, 1, Len(s) - 1)) ELSE s
\* s.strip()
Strip(s) == RStrip(LStrip(s))

\* s[a:b] with 0 <= a <= b
Slice(s, a, b) == SubSeq(s, a + 1, IF b > Len(s) THEN Len(s) ELSE b)

\* s.isdigit()
IsDigitStr(s) == s # <<>> /\ \A i \in 1..Len(s) : IsDigitChar(s[i])

\* int(s) succeeds
IntParses(s) == Strip(s) # <<>> /\ \A i \in 1..Len(Strip(s)) : IsDecimal(Strip(s)[i])
RECURSIVE DecimalValue(_)
DecimalValue(s) == IF s = <<>> THEN 0
                   ELSE 10 * DecimalValue(SubSeq(s, 1, Len(s) - 1)) + DigitValue(s[Len(s)])
\* int(s), where it succeeds
IntOf(s) == DecimalValue(Strip(s))

SerialLength == 7
MaxMonthCode == 12
MinYearCode == 17
MaxYearCode == 26

Valide == "Valide"
InvalideLongueur == "Invalide (longueur)"
InvalideMois == "Invalide (2 premiers > 12)"
InvalideAnnee == "Invalide (chiffres 3-4 hors 17-26)"
StatusStrings == {Valide, InvalideLongueur, InvalideMois, InvalideAnnee}
\* The call did not return: int(c) raised ValueError.
ValueErrorRaised == "ValueError"

\* special_chars.get(c, c) of lire1.py: superscripts only.
special_chars_lire1(c) ==
    IF c \in Range(Superscripts) THEN AsciiDigits[IndexIn(Superscripts, c)] ELSE c
\* special_chars.get(c, c) of lire2.py: superscripts and subscripts.
special_chars_lire2(c) ==
    IF c \in Range(Superscripts) THEN AsciiDigits[IndexIn(Superscripts, c)]
    ELSE IF c \in Range(Subscripts) THEN AsciiDigits[IndexIn(Subscripts, c)]
    ELSE c

\* The three rules, on the cleaned string (the same in both scripts).
Regles(cleaned_str) ==
    IF Len(cleaned_str) # SerialLength \/ ~IsDigitStr(cleaned_str)
    THEN InvalideLongueur
    ELSE IF \E i \in 1..Len(cleaned_str) : ~IsDecimal(cleaned_str[i])
    THEN ValueErrorRaised
    ELSE LET deux_premiers == DigitValue(cleaned_str[1]) * 10 + DigitValue(cleaned_str[2])
             trois_quatre == DigitValue(cleaned_str[3]) * 10 + DigitValue(cleaned_str[4])
         IN IF deux_premiers > MaxMonthCode THEN InvalideMois
            ELSE IF trois_quatre < MinYearCode \/ trois_quatre > MaxYearCode
            THEN InvalideAnnee
            ELSE Valide

lire1_valider_numero_serie(num) ==
    LET num_str == Strip(Str(num))
    IN Regles([i \in 1..Len(num_str) |-> special_chars_lire1(num_str[i])])

lire2_valider_numero_serie(num) ==
    LET num_str == Strip(Str(num))
    IN Regles([i \in 1..Len(num_str) |-> special_chars_lire2(num_str[i])])

\* data3.validate_sn
validate_sn(sn) ==
    IF sn.kind = "nan" \/ Len(Str(sn)) < 4 THEN FALSE
    ELSE IF ~IntParses(Slice(Str(sn), 0, 2)) \/ ~IntParses(Slice(Str(sn), 2, 4))
    THEN FALSE
    ELSE LET mm == IntOf(Slice(Str(sn), 0, 2))
             aa == IntOf(Slice(Str(sn), 2, 4))
         IN (17 <= aa /\ aa <= 30) /\ (1 <= mm /\ mm <= 12)

\* api.validate_serial
validate_serial(serial) == serial.kind # "nan"

\* The text 'dd/mm/YYYY' that strftime returns, as its three numbers.
DateText(d, m, y) == [st |-> "ok", jour |-> d, mois |-> m, annee |-> y]

\* api.extract_manufacture_date: strptime("<week> <year>", "%U %Y") accepts a week
\* number up to 53 and, given no day of the week, gives 1 January of the year.
extract_manufacture_date(serial) ==
    IF ~IntParses(Slice(Str(serial), 0, 2)) \/ ~IntParses(Slice(Str(serial), 2, 4))
    THEN None
    ELSE LET year_part == IntOf(Slice(Str(serial), 0, 2)) + 2000
             week_part == IntOf(Slice(Str(serial), 2, 4))
         IN IF week_part > 53 THEN None ELSE DateText(1, 1, year_part)

\* Serial cells tried: four leading characters, then one of a few tails.
LeadChars == {"0", "1", "2", "3", "6", "7", "8", "sup1", "sub1", "A"}
Tails == {<<>>, <<"0", "0">>, <<"0", "0", "1">>, <<"0", "0", "circ1">>,
          <<"0", "0", "1", " ">>, <<"0", "0", "1", "1">>}
SerialTexts == {Text(p \o t) : p \in [1..4 -> LeadChars], t \in Tails}
SerialCells == SerialTexts \cup {NaNCell, IntCell(118001), IntCell(1218001),
                                 FloatCell(1218001)}

InitSerial ==
    /\ num_serie \in SerialCells
    /\ statut = Idle
    /\ date_str = NaNCell /\ converted = Idle
    /\ MergeIdle /\ TTFIdle /\ LireIdle

lire1_Valider ==
    /\ statut.st = "idle"
    /\ statut' = [st |-> "done", by |-> "lire1",
                  value |-> lire1_valider_numero_serie(num_serie)]
    /\ UNCHANGED <<num_serie, date_str, converted, notSerial>>

lire2_Valider ==
    /\ statut.st = "idle"
    /\ statut' = [st |-> "done", by |-> "lire2",
                  value |-> lire2_valider_numero_serie(num_serie)]
    /\ UNCHANGED <<num_serie, date_str, converted, notSerial>>

data3_ValidateSn ==
    /\ statut.st = "idle"
    /\ statut' = [st |-> "done", by |-> "data3", value |-> validate_sn(num_serie)]
    /\ UNCHANGED <<num_serie, date_str, converted, notSerial>>

api_ValidateSerial ==
    /\ statut.st = "idle"
    /\ statut' = [st |-> "done", by |-> "api.validate_serial",
                  value |-> validate_serial(num_serie)]
    /\ UNCHANGED <<num_serie, date_str, converted, notSerial>>

api_ExtractManufactureDate ==
    /\ statut.st = "idle"
    /\ statut' = [st |-> "done", by |-> "api.extract_manufacture_date",
                  value |-> extract_manufacture_date(num_serie)]
    /\ UNCHANGED <<num_serie, date_str, converted, notSerial>>

NextSerial == lire1_Valider \/ lire2_Valider \/ data3_ValidateSn
              \/ api_ValidateSerial \/ api_ExtractManufactureDate

SpecSerial == InitSerial /\ [][NextSerial]_vars

\* The string a script validates: stripped, its glyph table applied.
Cleaned(by, num) ==
    LET num_str == Strip(Str(num))
    IN [i \in 1..Len(num_str) |->
          IF by = "lire1" THEN special_chars_lire1(num_str[i])
          ELSE special_chars_lire2(num_str[i])]
SevenDigits(s) == Len(s) = 7 /\ \A i \in 1..Len(s) : IsDecimal(s[i])
MonthCode(s) == DigitValue(s[1]) * 10 + DigitValue(s[2])
YearCode(s) == DigitValue(s[3]) * 10 + DigitValue(s[4])

\* The status C6 gives a cleaned string: the first violated rule, else valid.
ClaimedStatus(s) ==
    IF ~SevenDigits(s) THEN InvalideLongueur
    ELSE IF ~(MonthCode(s) \in 1..12) THEN InvalideMois
    ELSE IF ~(YearCode(s) \in 17..26) THEN InvalideAnnee
    ELSE Valide

\* C6: for a serial that is exactly 7 digits after the script's glyph
\* normalisation, valider_numero_serie answers 'Valide' exactly when the month
\* code is in 1..12 and the year code in 17..26, and otherwise the status of
\* the first violated rule (month, then year window).
Cex_C6 ==
    (/\ statut.st = "done" /\ statut.by \in {"lire1", "lire2"}
     /\ SevenDigits(Cleaned(statut.by, num_serie))) =>
        statut.value = ClaimedStatus(Cleaned(statut.by, num_serie))

\* C7: valider_numero_serie returns one of its status strings for every input:
\* it never raises.
Cex_C7 ==
    (statut.st = "done" /\ statut.by \in {"lire1", "lire2"}) =>
        statut.value \in StatusStrings

\* C9: for every valid serial, the manufacture date that
\* api.extract_manufacture_date derives has month = digits 1-2 and
\* year = 2000 + digits 3-4.
Cex_C9 ==
    (/\ statut.st = "done" /\ statut.by = "api.extract_manufacture_date"
     /\ num_serie.kind = "str"
     /\ ClaimedStatus(num_serie.chars) = Valide) =>
        /\ statut.value.st = "ok"
        /\ statut.value.mois = MonthCode(num_serie.chars)
        /\ statut.value.annee = 2000 + YearCode(num_serie.chars)

-----------------------------------------------------------------------------
(* QQQQ.py and api.py : one run of each script on a workbook.              *)

InitMerge ==
    /\ df_install \in SeqsUpTo(InstallRows, MaxInstall)
    /\ df_incidents \in SeqsUpTo(IncidentRows, MaxInc)
    /\ df_retours \in SeqsUpTo(RetourRows, MaxRet)
    /\ df_final = Idle
    /\ merged = Idle
    /\ TTFIdle /\ SerialIdle /\ LireIdle

\* One run of QQQQ.py on the uploaded workbook.  The workbook is given to one
\* of the two applications.
QQQQ_Run ==
    /\ df_final.st = "idle" /\ merged.st = "idle"
    /\ \E now1, now2 \in Clock :
         /\ now1 <= now2
         /\ df_final' = QQQQ_process_data(df_install, df_incidents, df_retours,
                                          now1, now2)
    /\ UNCHANGED <<df_install, df_incidents, df_retours, merged, notMerge>>

\* The serial cell of a merged row as the serial functions receive it.
SerialChars == [s \in Serials |-> IF s = "S1" THEN <<"S", "1">> ELSE <<"S", "2">>]
SerialCellOf(s) == IF s = NULL THEN NaNCell ELSE Text(SerialChars[s])

\* api.py lines 211-226: the columns added to the merged table.
api_Traitement(rows, now) ==
    [i \in 1..Len(rows) |-> rows[i] @@
        [serie_valide |-> validate_serial(SerialCellOf(rows[i].serie)),
         date_fabrication |-> extract_manufacture_date(SerialCellOf(rows[i].serie)),
         age_installation |-> DaysBetween(now, rows[i].dinst)]]

\* "Lancer le traitement" of api.py on the same three sheets: what is saved
\* in the session as processed_data.  When process_data raises, the except
\* clause of main() shows the error and nothing is saved.
api_Run ==
    /\ merged.st = "idle" /\ df_final.st = "idle"
    /\ \E now \in Clock :
         LET p == api_process_data(df_install, df_incidents, df_retours)
         IN merged' = IF p.raised THEN None
                      ELSE Table(api_Traitement(p.rows, now))
    /\ UNCHANGED <<df_install, df_incidents, df_retours, df_final, notMerge>>

NextMerge == QQQQ_Run \/ api_Run

SpecMerge == InitMerge /\ [][NextMerge]_vars

\* C1: whatever the incident and return sheets hold (no row at all, several
\* rows for one serial), QQQQ.process_data returns a merged table with exactly
\* as many rows as the installation sheet.
Thm_C1 ==
    df_final.st = "ok" => Len(df_final.rows) = Len(df_install)

\* An installed serial with two incident rows and two return rows has been
\* merged, next to another installation row.
Wit_C1 ==
    /\ df_final.st = "ok"
    /\ Len(df_install) = 2 /\ Len(df_final.rows) = 2
    /\ Len(df_incidents) = 2 /\ Len(df_retours) = 2
    /\ \E i \in 1..Len(df_install) :
         /\ df_install[i].serie # NULL
         /\ \A j \in 1..2 :
              /\ df_incidents[j].serie = df_install[i].serie
              /\ df_retours[j].serie = df_install[i].serie

\* C2: the table merged by api.process_data never has more rows than the
\* installation sheet.
Cex_C2 ==
    merged.st = "ok" => Len(merged.rows) <= Len(df_install)

-----------------------------------------------------------------------------
(* data3.py : preprocess_data on a sheet that has the required columns.    *)

MaxSheet == 2

SN_0118001 == Text(<<"0", "1", "1", "8", "0", "0", "1">>)
SN_1318001 == Text(<<"1", "3", "1", "8", "0", "0", "1">>)
SN_AB18001 == Text(<<"A", "B", "1", "8", "0", "0", "1">>)
SN_01AB001 == Text(<<"0", "1", "A", "B", "0", "0", "1">>)
SN_01 == Text(<<"0", "1">>)
SheetSNs == {SN_0118001, SN_1318001, SN_AB18001, SN_01AB001, SN_01, NaNCell,
             IntCell(1218001)}

Data3Rows == [modele : {"ModA"}, SN : SheetSNs, pays : {250},
              installationDate : {D_2018_02_01},
              desinstallation : {NaT, D_2019_06_01},
              derniere_connexion : {BadDate}]

\* str.lower().str.strip() on the model names of the sheet
LowerStrip(m) == IF m = "ModA" THEN "moda" ELSE m
\* data3.get_country_name
get_country_name(code) == IF code = 250 THEN "France" ELSE "Inconnu"

data3_ConvertDates(t) ==
    [i \in 1..Len(t) |->
        [t[i] EXCEPT !.installationDate = ToDatetimeCoerce(@),
                     !.desinstallation = ToDatetimeCoerce(@),
                     !.derniere_connexion = ToDatetimeCoerce(@)]]

\* .astype(str).str[a:b].astype(int) succeeds on every row
CodesParse(t, a, b) == \A i \in 1..Len(t) : IntParses(Slice(Str(t[i].SN), a, b))

data3_AddMois(t) ==
    [i \in 1..Len(t) |-> t[i] @@ [SN_mois |-> IntOf(Slice(Str(t[i].SN), 0, 2))]]
data3_AddRest(t, today) ==
    [i \in 1..Len(t) |-> t[i] @@
        [SN_annee |-> 2000 + IntOf(Slice(Str(t[i].SN), 2, 4)),
         SN_valide |-> validate_sn(t[i].SN),
         duree_vie |-> DaysBetween(t[i].desinstallation, t[i].installationDate),
         jours_sans_connexion |-> DaysBetween(today, t[i].derniere_connexion),
         modele_clean |-> LowerStrip(t[i].modele),
         pays_nom |-> get_country_name(t[i].pays)]]

\* data3.preprocess_data: the table as the call leaves it (its columns are
\* assigned in place, so what was assigned before an exception stays) and the
\* value returned.
preprocess_data(t, today) ==
    LET dated == data3_ConvertDates(t)
    IN IF ~CodesParse(dated, 0, 2) THEN [df |-> dated, ret |-> None]
       ELSE IF ~CodesParse(dated, 2, 4)
       THEN [df |-> data3_AddMois(dated), ret |-> None]
       ELSE LET out == data3_AddRest(data3_AddMois(dated), today)
            IN [df |-> out, ret |-> Table(out)]

InitPreprocess ==
    /\ df \in SeqsUpTo(Data3Rows, MaxSheet)
    /\ prepared = Idle
    /\ MergeIdle /\ SerialIdle /\ LireIdle

data3_Run ==
    /\ prepared.st = "idle"
    /\ \E today \in Today :
         LET res == preprocess_data(df, today)
         IN df' = res.df /\ prepared' = res.ret @@ [by |-> "data3"]
    /\ UNCHANGED notTTF

NextPreprocess == data3_Run

SpecPreprocess == InitPreprocess /\ [][NextPreprocess]_vars

\* C8: a row whose serial fails the format rules stays in the table returned
\* by data3.preprocess_data, with its validity flag: the call returns a table
\* with every row of the sheet.
Cex_C8 ==
    (prepared.st # "idle" /\ prepared.by = "data3") =>
        /\ prepared.st = "ok"
        /\ Len(prepared.rows) = Len(df)
        /\ \A i \in 1..Len(prepared.rows) : "SN_valide" \in DOMAIN prepared.rows[i]

-----------------------------------------------------------------------------
(* lire1.py, lire2.py : one run of the preprocessing script on the         *)
(* uploaded file.  Every interaction runs the script again from the file,  *)
(* so a run does not depend on the runs before it: one run is followed.    *)

MaxRows == 3

\* Characters in code-point order, for comparing strings.
CharsByCode == <<" ", ".", "0", "1", "2", "3", "4", "5", "6", "7", "8", "9",
                 "A", "B", "a", "n">>
RECURSIVE LexLess(_, _)
LexLess(a, b) ==
    IF b = <<>> THEN FALSE
    ELSE IF a = <<>> THEN TRUE
    ELSE IF Head(a) = Head(b) THEN LexLess(Tail(a), Tail(b))
    ELSE IndexIn(CharsByCode, Head(a)) < IndexIn(CharsByCode, Head(b))

FullColumns == {"modele", "serie", "note"}
NoSerieColumns == {"modele", "note"}
FullRows == [modele : {"M1", "M2"}, serie : {SN_0118001, SN_1318001, NaNCell},
             note : {"a", "b"}]
NoSerieRows == [modele : {"M1", "M2"}, note : {"a", "b"}]
UploadedFiles ==
    {[st |-> "ok", columns |-> FullColumns, rows |-> r] :
        r \in SeqsUpTo(FullRows, MaxRows)}
    \cup {[st |-> "ok", columns |-> NoSerieColumns, rows |-> r] :
        r \in SeqsUpTo(NoSerieRows, MaxRows)}

RECURSIVE SetToSeq(_)
\* The members of a set of indexes, ascending.
SetToSeq(S) == IF S = {} THEN <<>>
               ELSE LET m == CHOOSE x \in S : \A y \in S : x <= y
                    IN <<m>> \o SetToSeq(S \ {m})

\* df.sort_values('no de série'): rows with an empty serial go last in their
\* original order; the others are ordered by serial, rows with equal serials
\* in an order the (unstable) default sort is free to choose.
sort_values(rows) ==
    LET nn == {i \in 1..Len(rows) : rows[i].serie # NaNCell}
        na == SetToSeq({i \in 1..Len(rows) : rows[i].serie = NaNCell})
        k == Cardinality(nn)
        orders == {p \in [1..k -> nn] :
                     /\ \A i, j \in 1..k : i # j => p[i] # p[j]
                     /\ \A i, j \in 1..k :
                          i < j => ~LexLess(rows[p[j]].serie.chars, rows[p[i]].serie.chars)}
    IN {[i \in 1..Len(rows) |-> IF i <= k THEN rows[p[i]] ELSE rows[na[i - k]]] :
          p \in orders}

\* The deduplication key.
Key(r) == <<r.modele, r.serie>>
\* A mutation: duplicates are looked for on the serial alone.
SameSerie(r1, r2) == r1.serie = r2.serie
\* Two rows are duplicates of each other under subset=['modèle', 'no de série'].
SameKey(r1, r2) == Key(r1) = Key(r2)

RECURSIVE KeepFirstFrom(_, _)
KeepFirstFrom(rows, i) ==
    IF i > Len(rows) THEN <<>>
    ELSE (IF \E j \in 1..(i - 1) : SameKey(rows[j], rows[i]) THEN <<>> ELSE <<rows[i]>>)
         \o KeepFirstFrom(rows, i + 1)
\* df.drop_duplicates(subset=['modèle', 'no de série'], keep='first')
drop_duplicates(rows) == KeepFirstFrom(rows, 1)

\* df.duplicated(subset=['modèle', 'no de série']).sum()
duplicated_sum(rows) ==
    Cardinality({i \in 1..Len(rows) : \E j \in 1..(i - 1) : SameKey(rows[j], rows[i])})
\* df.duplicated(subset=['modèle', 'no de série'], keep=False).sum()
duplicated_keep_false_sum(rows) ==
    Cardinality({i \in 1..Len(rows) :
                   \E j \in 1..Len(rows) : j # i /\ SameKey(rows[j], rows[i])})

\* lire2.py section 3 on a table with the serial column: the new column.
lire2_Statuts(rows) ==
    [i \in 1..Len(rows) |-> lire2_valider_numero_serie(rows[i].serie)]
AddStatuts(rows) ==
    [i \in 1..Len(rows) |-> rows[i] @@ [statut_numero_serie |-> lire2_Statuts(rows)[i]]]

\* What one run of lire2.py leaves: the table and the page.  `sorted` is the
\* outcome of sort_values when the button is pressed.
lire2_Run(file, clicked, sorted) ==
    IF "serie" \notin file.columns
    THEN [df |-> Table(file.rows),
          page |-> [st |-> "done", by |-> "lire2", validation |-> "colonne absente",
                    doublons |-> "colonnes requises", invalides |-> NaN,
                    lignes_avant |-> NaN, detectes |-> NaN, enlevees |-> NaN]]
    ELSE IF \E i \in 1..Len(file.rows) : lire2_Statuts(file.rows)[i] = ValueErrorRaised
    THEN [df |-> Table(file.rows), page |-> [st |-> "raised", by |-> "lire2"]]
    ELSE LET t == AddStatuts(file.rows)
             page == [st |-> "done", by |-> "lire2", validation |-> "faite",
                      doublons |-> "affiches",
                      invalides |-> Num(Len(SelectSeq(t,
                                      LAMBDA r : r.statut_numero_serie # Valide))),
                      lignes_avant |-> Num(Len(t)),
                      detectes |-> Num(duplicated_keep_false_sum(t)),
                      enlevees |-> NaN]
         IN IF ~clicked THEN [df |-> Table(t), page |-> page]
            ELSE LET s == AddStatuts(sorted)
                     df_clean == drop_duplicates(s)
                 IN [df |-> Table(df_clean),
                     page |-> [page EXCEPT !.doublons = "supprimes",
                                           !.enlevees = Num(Len(s) - Len(df_clean))]]

\* What one run of lire1.py leaves.  Its section 3 looks for a column named
\* 'numéro de série', which none of these files has.
lire1_Run(file, clicked, sorted) ==
    IF "serie" \notin file.columns
    THEN [df |-> Table(file.rows),
          page |-> [st |-> "done", by |-> "lire1", validation |-> "colonne absente",
                    doublons |-> "colonnes requises", invalides |-> NaN,
                    lignes_avant |-> NaN, detectes |-> NaN, enlevees |-> NaN]]
    ELSE LET dup_count == duplicated_sum(file.rows)
             page == [st |-> "done", by |-> "lire1", validation |-> "colonne absente",
                      doublons |-> "affiches", invalides |-> NaN,
                      lignes_avant |-> NaN, detectes |-> Num(dup_count),
                      enlevees |-> NaN]
         IN IF ~clicked THEN [df |-> Table(file.rows), page |-> page]
            ELSE [df |-> Table(drop_duplicates(sorted)),
                  page |-> [page EXCEPT !.doublons = "supprimes",
                                        !.enlevees = Num(dup_count)]]

\* The outcomes sort_values can give for the file (the rows as they are when
\* there is no serial column to sort on).
SortOutcomes(file) ==
    IF "serie" \in file.columns THEN sort_values(file.rows) ELSE {file.rows}

InitLire ==
    /\ uploaded_file \in UploadedFiles
    /\ lire_df = Idle
    /\ messages = Idle
    /\ permuted_file = Idle /\ permuted_df = Idle
    /\ MergeIdle /\ TTFIdle /\ SerialIdle

\* A run of lire2.py without any button pressed.
lire2_Afficher ==
    /\ messages.st = "idle"
    /\ LET res == lire2_Run(uploaded_file, FALSE, uploaded_file.rows)
       IN lire_df' = res.df /\ messages' = res.page
    /\ UNCHANGED <<uploaded_file, permuted_file, permuted_df, notLire>>

\* A run of lire2.py with "Supprimer les doublons" pressed.
lire2_Supprimer ==
    /\ messages.st = "idle"
    /\ \E sorted \in SortOutcomes(uploaded_file) :
         LET res == lire2_Run(uploaded_file, TRUE, sorted)
         IN lire_df' = res.df /\ messages' = res.page
    /\ UNCHANGED <<uploaded_file, permuted_file, permuted_df, notLire>>

lire1_Afficher ==
    /\ messages.st = "idle"
    /\ LET res == lire1_Run(uploaded_file, FALSE, uploaded_file.rows)
       IN lire_df' = res.df /\ messages' = res.page
    /\ UNCHANGED <<uploaded_file, permuted_file, permuted_df, notLire>>

lire1_Supprimer ==
    /\ messages.st = "idle"
    /\ \E sorted \in SortOutcomes(uploaded_file) :
         LET res == lire1_Run(uploaded_file, TRUE, sorted)
         IN lire_df' = res.df /\ messages' = res.page
    /\ UNCHANGED <<uploaded_file, permuted_file, permuted_df, notLire>>

NextLire == lire2_Afficher \/ lire2_Supprimer \/ lire1_Afficher \/ lire1_Supprimer

SpecLire == InitLire /\ [][NextLire]_vars

\* The keys of a table, and the rows beyond the first occurrence of their key.
KeysOf(rows) == {Key(rows[i]) : i \in 1..Len(rows)}
BeyondFirst(rows) == Len(rows) - Cardinality(KeysOf(rows))
\* The duplicate-removal step has run in the last run of the script.
Supprimes == messages.st = "done" /\ messages.doublons = "supprimes"

\* C10 as stated: after the duplicate-removal step no two rows share the key
\* (modèle, no de série), every key of the file is still there, and the numbers
\* reported as detected and as removed both equal the number of rows beyond
\* the first occurrence of each key (rows before - rows after).
Cex_C10 ==
    Supprimes =>
        /\ \A i, j \in 1..Len(lire_df.rows) :
             i # j => Key(lire_df.rows[i]) # Key(lire_df.rows[j])
        /\ KeysOf(lire_df.rows) = KeysOf(uploaded_file.rows)
        /\ messages.enlevees = Num(BeyondFirst(uploaded_file.rows))
        /\ messages.detectes = Num(BeyondFirst(uploaded_file.rows))
        /\ BeyondFirst(uploaded_file.rows) = Len(uploaded_file.rows) - Len(lire_df.rows)

\* The keys that occur on more than one row.
DuplicatedKeys(rows) ==
    {k \in KeysOf(rows) : Cardinality({i \in 1..Len(rows) : Key(rows[i]) = k}) > 1}

\* C10 amended: after the duplicate-removal step no two rows share the key,
\* every key of the file is still there, and the number reported as removed
\* (and lire1.py's number of duplicates found) equals the number of rows
\* beyond the first occurrence of each key (rows before - rows after);
\* lire2.py's number of duplicates detected counts every row whose key occurs
\* more than once, first occurrences included.
Thm_C10 ==
    Supprimes =>
        /\ \A i, j \in 1..Len(lire_df.rows) :
             i # j => Key(lire_df.rows[i]) # Key(lire_df.rows[j])
        /\ KeysOf(lire_df.rows) = KeysOf(uploaded_file.rows)
        /\ messages.enlevees = Num(BeyondFirst(uploaded_file.rows))
        /\ BeyondFirst(uploaded_file.rows) = Len(uploaded_file.rows) - Len(lire_df.rows)
        /\ messages.by = "lire1" =>
             messages.detectes = Num(BeyondFirst(uploaded_file.rows))
        /\ messages.by = "lire2" =>
             messages.detectes = Num(BeyondFirst(uploaded_file.rows)
                                     + Cardinality(DuplicatedKeys(uploaded_file.rows)))

\* lire2.py has removed the duplicates of a file in which one key occurs three
\* times: 3 detected, 2 removed, 1 row left.
Wit_C10 ==
    /\ Supprimes /\ messages.by = "lire2"
    /\ Len(uploaded_file.rows) = 3 /\ Len(lire_df.rows) = 1
    /\ messages.detectes = Num(3) /\ messages.enlevees = Num(2)

-----------------------------------------------------------------------------
(* lire1.py, lire2.py : the duplicate removal run on a file and on the     *)
(* same file with its rows in another order.                               *)

MaxPermRows == 3

\* The tables that hold the rows of a table in some order.
Reorderings(rows) ==
    {[i \in 1..Len(rows) |-> rows[p[i]]] :
        p \in {q \in [1..Len(rows) -> 1..Len(rows)] :
                 \A i, j \in 1..Len(rows) : i # j => q[i] # q[j]}}

\* Files with the columns 'modèle' and 'no de série'.
KeyedFiles ==
    {[st |-> "ok", columns |-> FullColumns, rows |-> r] :
        r \in SeqsUpTo(FullRows, MaxPermRows)}

\* The script has not run on this file yet, or it is the script `by` that has.
NotRunOrBy(x, by) == IF x.st = "idle" THEN TRUE ELSE x.by = by

InitPermute ==
    /\ uploaded_file \in KeyedFiles
    /\ permuted_file \in {[uploaded_file EXCEPT !.rows = r] :
                            r \in Reorderings(uploaded_file.rows)}
    /\ lire_df = Idle /\ messages = Idle /\ permuted_df = Idle
    /\ MergeIdle /\ TTFIdle /\ SerialIdle

\* "Supprimer les doublons" of lire2.py on the file.
lire2_SupprimerFile ==
    /\ messages.st = "idle"
    /\ NotRunOrBy(permuted_df, "lire2")
    /\ \E sorted \in SortOutcomes(uploaded_file) :
         LET res == lire2_Run(uploaded_file, TRUE, sorted)
         IN lire_df' = res.df /\ messages' = res.page
    /\ UNCHANGED <<uploaded_file, permuted_file, permuted_df, notLire>>

\* "Supprimer les doublons" of lire2.py on the reordered file.
lire2_SupprimerPermuted ==
    /\ permuted_df.st = "idle"
    /\ NotRunOrBy(messages, "lire2")
    /\ \E sorted \in SortOutcomes(permuted_file) :
         LET res == lire2_Run(permuted_file, TRUE, sorted)
         IN permuted_df' = res.df @@ [by |-> "lire2", page |-> res.page.st]
    /\ UNCHANGED <<uploaded_file, permuted_file, lire_df, messages, notLire>>

\* "Supprimer les doublons" of lire1.py on the file.
lire1_SupprimerFile ==
    /\ messages.st = "idle"
    /\ NotRunOrBy(permuted_df, "lire1")
    /\ \E sorted \in SortOutcomes(uploaded_file) :
         LET res == lire1_Run(uploaded_file, TRUE, sorted)
         IN lire_df' = res.df /\ messages' = res.page
    /\ UNCHANGED <<uploaded_file, permuted_file, permuted_df, notLire>>

\* "Supprimer les doublons" of lire1.py on the reordered file.
lire1_SupprimerPermuted ==
    /\ permuted_df.st = "idle"
    /\ NotRunOrBy(messages, "lire1")
    /\ \E sorted \in SortOutcomes(permuted_file) :
         LET res == lire1_Run(permuted_file, TRUE, sorted)
         IN permuted_df' = res.df @@ [by |-> "lire1", page |-> res.page.st]
    /\ UNCHANGED <<uploaded_file, permuted_file, lire_df, messages, notLire>>

NextPermute == lire2_SupprimerFile \/ lire2_SupprimerPermuted
               \/ lire1_SupprimerFile \/ lire1_SupprimerPermuted

SpecPermute == InitPermute /\ [][NextPermute]_vars

\* The rows of a table, whatever their order.
RowSet(rows) == {rows[i] : i \in 1..Len(rows)}
\* The duplicate removal has run to its end on both orders of the file.
BothDeduplicated ==
    /\ Supprimes /\ lire_df.st = "ok"
    /\ permuted_df.st = "ok" /\ permuted_df.page = "done"

\* C11: the duplicate removal run on a file and on any reordering of its rows
\* leaves the same rows, non-key columns included.
Cex_C11 ==
    BothDeduplicated => RowSet(lire_df.rows) = RowSet(permuted_df.rows)

-----------------------------------------------------------------------------
(* QQQQ.py : the merged record of an installed device.                     *)

\* The number of rows of a sheet that carry the serial s.
RawCount(t, s) == Len(GroupOf(t, s))
\* The number of those rows whose cell in column f is filled.
FilledCount(t, s, f) == Len(NonNull(Column(GroupOf(t, s), f)))

\* C12: in the table merged by QQQQ.process_data, the incident count of an
\* installed serial is the number of incident rows that carry the serial and
\* its return count the number of return rows that carry it, whatever the
\* other cells of those rows hold.
Cex_C12 ==
    df_final.st = "ok" =>
        \A i \in 1..Len(df_final.rows) :
            LET r == df_final.rows[i]
            IN r.serie # NULL =>
                 /\ r.nombre_incidents = RawCount(df_incidents, r.serie)
                 /\ r.nombre_retours = RawCount(df_retours, r.serie)

\* C13: every installation row is in the table merged by QQQQ.process_data,
\* in its place; when no incident row carries its serial its incident count
\* is 0 and its last incident date empty, and when no return row carries its
\* serial its return count is 0 and its last return date and RMA empty.
Thm_C13 ==
    df_final.st = "ok" =>
        /\ Len(df_final.rows) = Len(df_install)
        /\ \A i \in 1..Len(df_final.rows) :
             LET r == df_final.rows[i]
             IN /\ r.serie = df_install[i].serie
                /\ RawCount(df_incidents, r.serie) = 0 =>
                     r.nombre_incidents = 0 /\ r.dernier_incident = NaT
                /\ RawCount(df_retours, r.serie) = 0 =>
                     /\ r.nombre_retours = 0
                     /\ r.dernier_retour = NaT
                     /\ r.RMA = NULL

\* A serial installed, with no incident row and no return row of its own while
\* both sheets have rows for others, has been merged.
Wit_C13 ==
    /\ df_final.st = "ok"
    /\ df_incidents # <<>> /\ df_retours # <<>>
    /\ \E i \in 1..Len(df_final.rows) :
         LET r == df_final.rows[i]
         IN /\ r.serie # NULL
            /\ RawCount(df_incidents, r.serie) = 0
            /\ RawCount(df_retours, r.serie) = 0
            /\ r.nombre_incidents = 0 /\ r.nombre_retours = 0

\* C14: in every merged record the flag a_incident_sans_retour is true exactly
\* when the incident count is above 0 and the return count is 0, the counts
\* being those of the filled 'incident' and 'RMA' cells of the serial's rows;
\* a device with no incident row and no return row has the flag false.
Thm_C14 ==
    df_final.st = "ok" =>
        \A i \in 1..Len(df_final.rows) :
            LET r == df_final.rows[i]
            IN /\ r.a_incident_sans_retour
                    <=> (r.nombre_incidents > 0 /\ r.nombre_retours = 0)
               /\ r.serie # NULL =>
                    (r.a_incident_sans_retour
                       <=> /\ FilledCount(df_incidents, r.serie, "incident") > 0
                           /\ FilledCount(df_retours, r.serie, "RMA") = 0)
               /\ (RawCount(df_incidents, r.serie) = 0
                     /\ RawCount(df_retours, r.serie) = 0)
                    => ~r.a_incident_sans_retour

\* Two installed devices have been merged: one with incidents and a return,
\* whose flag is false, one with an incident and no return, whose flag is true.
Wit_C14 ==
    /\ df_final.st = "ok"
    /\ \E i, j \in 1..Len(df_final.rows) :
         /\ df_final.rows[i].nombre_incidents > 0
         /\ df_final.rows[i].nombre_retours > 0
         /\ ~df_final.rows[i].a_incident_sans_retour
         /\ df_final.rows[j].nombre_incidents > 0
         /\ df_final.rows[j].nombre_retours = 0
         /\ df_final.rows[j].a_incident_sans_retour

\* C20: the table merged by QQQQ.process_data is the one a run at any other
\* moment gives for the same workbook.
Cex_C20 ==
    df_final.st = "ok" =>
        \A now1, now2 \in Clock :
            now1 <= now2 =>
                df_final = QQQQ_process_data(df_install, df_incidents, df_retours,
                                             now1, now2)

-----------------------------------------------------------------------------
(* Données.py : load_file on a sheet that has the required columns, which  *)
(* are read here under the names the other scripts give them               *)
(* (installationDate, incidentDate, Lastconnexion, SN).                    *)

\* pd.to_datetime(col) raises when a cell of the column is text it cannot parse.
ToDatetimeRaises(t, col) == \E i \in 1..Len(t) : t[i][col] = BadDate

\* The serial cell of the sheet as a string cell.
SNCell(sn) == IF sn = NULL THEN NaNCell ELSE SN_0118001
\* df['no de série'].str[2:4].astype(int) succeeds on every row: .str gives NaN
\* for a cell that is not a string, and astype(int) raises on NaN.
AnneeParses(t) ==
    \A i \in 1..Len(t) :
        SNCell(t[i].SN).kind = "str" /\ IntParses(Slice(Str(SNCell(t[i].SN)), 2, 4))

Donnees_AddDifference(t) ==
    [i \in 1..Len(t) |-> t[i] @@
        [difference_jours |-> DaysBetween(t[i].incidentDate, t[i].installationDate)]]
Donnees_AddAnnee(t) ==
    [i \in 1..Len(t) |-> t[i] @@
        [annee |-> IntOf(Slice(Str(SNCell(t[i].SN)), 2, 4)) + 2000]]

\* ExcelVisualizationApp.prepare_data as load_file calls it: self.df as the
\* call leaves it and whether it raised (load_file then shows the error and
\* nothing else is done).
Donnees_prepare_data(t) ==
    IF \/ ToDatetimeRaises(t, "installationDate")
       \/ ToDatetimeRaises(t, "incidentDate")
       \/ ToDatetimeRaises(t, "Lastconnexion")
    THEN [df |-> t, raised |-> TRUE]
    ELSE IF ~AnneeParses(t)
    THEN [df |-> Donnees_AddDifference(t), raised |-> TRUE]
    ELSE [df |-> Donnees_AddAnnee(Donnees_AddDifference(t)), raised |-> FALSE]

Donnees_Run ==
    /\ prepared.st = "idle"
    /\ LET res == Donnees_prepare_data(df)
       IN /\ df' = res.df
          /\ prepared' = IF res.raised THEN [st |-> "raised", by |-> "Donnees"]
                         ELSE [st |-> "ok", by |-> "Donnees", rows |-> res.df]
    /\ UNCHANGED notTTF

NextTTF ==
    \/ vf1_Script \/ App3_Script \/ vf1_Prepare \/ App3_Convert
    \/ data1_Run \/ data_Run \/ Donnees_Run

SpecTTF == InitTTF /\ [][NextTTF]_vars

\* C15: the preparation of vf1.py and of Données.py completes on every sheet
\* whose serials are well formed, unparseable date cells included, and leaves
\* no such cell in the table: each has become an empty date.
Cex_C15 ==
    (/\ prepared.st # "idle" /\ prepared.by \in {"vf1", "Donnees"}
     /\ \A i \in 1..Len(df) : df[i].SN # NULL) =>
        /\ prepared.st = "ok"
        /\ \A i \in 1..Len(prepared.rows) :
             \A c \in {"installationDate", "incidentDate", "Lastconnexion"} :
                prepared.rows[i][c] # BadDate

-----------------------------------------------------------------------------
(* vf1.py, data3.py, Données.py : the check of the required columns, on a  *)
(* sheet that has a header row and no data row.                            *)

vf1_required_columns ==
    <<"modele", "SN", "FabricationDate", "refPays", "filiale", "installationDate",
      "Lastconnexion", "incident", "incidentDate">>
data3_required_columns ==
    <<"modele", "SN", "reference de pays", "installationDate",
      "date de desinstallation", "derniere connexion">>
Donnees_required_columns ==
    <<"modele", "no de serie", "reference de pays", "filiale", "date d'installation",
      "derniere connexion", "incident", "date d'incident">>

\* The header rows tried: any choice among the column names the scripts know.
SheetColumns == Range(vf1_required_columns) \cup Range(data3_required_columns)
                \cup Range(Donnees_required_columns)
HeaderOnlyFiles ==
    {[st |-> "ok", columns |-> c, rows |-> <<>>] : c \in SUBSET SheetColumns}

\* [col for col in required_columns if col not in df.columns]
missing_cols(required_columns, columns) ==
    SelectSeq(required_columns, LAMBDA col : col \notin columns)

InitColumns ==
    /\ uploaded_file \in HeaderOnlyFiles
    /\ lire_df = Idle /\ messages = Idle
    /\ permuted_file = Idle /\ permuted_df = Idle
    /\ MergeIdle /\ TTFIdle /\ SerialIdle

\* load_and_validate_data of vf1.py, the function as it is written (the
\* script itself does not compile), called on a file: it raises ValueError
\* with the missing columns in its text, or returns the table it read.
vf1_Charger ==
    /\ messages.st = "idle"
    /\ LET missing == missing_cols(vf1_required_columns, uploaded_file.columns)
       IN IF missing # <<>>
          THEN /\ messages' = [st |-> "error", by |-> "vf1", named |-> missing]
               /\ lire_df' = lire_df
          ELSE /\ messages' = [st |-> "done", by |-> "vf1"]
               /\ lire_df' = Table(uploaded_file.rows)
    /\ UNCHANGED <<uploaded_file, permuted_file, permuted_df, notLire>>

\* data3.main: preprocess_data reports the missing columns and returns None
\* before its try block; otherwise it processes the table.
data3_Charger ==
    /\ messages.st = "idle"
    /\ LET missing == missing_cols(data3_required_columns, uploaded_file.columns)
       IN IF missing # <<>>
          THEN /\ messages' = [st |-> "error", by |-> "data3", named |-> missing]
               /\ lire_df' = lire_df
          ELSE \E today \in Today :
                 /\ messages' = [st |-> "done", by |-> "data3"]
                 /\ lire_df' = preprocess_data(uploaded_file.rows, today).ret
    /\ UNCHANGED <<uploaded_file, permuted_file, permuted_df, notLire>>

\* Données.load_file: self.df is bound to the sheet as it is read (line 96),
\* before the columns are checked; then one fixed message, whichever columns
\* are missing, and prepare_data is not called.  lire_df is self.df.
Donnees_Charger ==
    /\ messages.st = "idle"
    /\ IF \E i \in 1..Len(Donnees_required_columns) :
             Donnees_required_columns[i] \notin uploaded_file.columns
       THEN /\ messages' = [st |-> "error", by |-> "Donnees", named |-> <<>>]
            /\ lire_df' = Table(uploaded_file.rows)
       ELSE /\ messages' = [st |-> "done", by |-> "Donnees"]
            /\ lire_df' = Table(Donnees_prepare_data(uploaded_file.rows).df)
    /\ UNCHANGED <<uploaded_file, permuted_file, permuted_df, notLire>>

NextColumns == vf1_Charger \/ data3_Charger \/ Donnees_Charger

SpecColumns == InitColumns /\ [][NextColumns]_vars

\* The columns a script requires.
RequiredBy(by) == CASE by = "vf1" -> Range(vf1_required_columns)
                    [] by = "data3" -> Range(data3_required_columns)
                    [] OTHER -> Range(Donnees_required_columns)

\* C16: when a required column is absent from the sheet, the script stops
\* with an error that names every missing column, and nothing is processed:
\* the only table it can hold is the sheet as it was read.
Cex_C16 ==
    (messages.st # "idle" /\ RequiredBy(messages.by) \ uploaded_file.columns # {}) =>
        /\ messages.st = "error"
        /\ lire_df \in {Idle, Table(uploaded_file.rows)}
        /\ Range(messages.named) = RequiredBy(messages.by) \ uploaded_file.columns

-----------------------------------------------------------------------------
(* lire1.py, lire2.py : convert_date_format.  The text of a date is kept   *)
(* as the pattern it is written in and the moment it denotes: day number,  *)
(* second of the day, microsecond.                                         *)

Fmt_ISO_Micro == "%Y-%m-%d %H:%M:%S.%f"
Fmt_ISO == "%Y-%m-%d %H:%M:%S"
Fmt_ISO_Date == "%Y-%m-%d"
Fmt_FR == "%d/%m/%Y"

DateString(fmt, day, sec, micro) ==
    [kind |-> "text", fmt |-> fmt, day |-> day, sec |-> sec, micro |-> micro]
\* A cell of a typed datetime column.
Timestamp(day, sec, micro) == [kind |-> "ts", day |-> day, sec |-> sec, micro |-> micro]

\* str(date_str): a Timestamp prints its microseconds only when it has some;
\* an empty cell prints as 'nan', which no pattern matches.
StrDate(c) ==
    CASE c.kind = "ts" ->
           DateString(IF c.micro = 0 THEN Fmt_ISO ELSE Fmt_ISO_Micro, c.day, c.sec, c.micro)
      [] c.kind = "text" -> c
      [] OTHER -> [kind |-> "text", fmt |-> "nan"]

\* datetime.strptime(s, pattern) succeeds: the text is written in the pattern.
Strptime(s, pattern) == s.fmt = pattern
\* dt.strftime('%d/%m/%Y'): the day, without the time.
StrftimeFR(s) == DateString(Fmt_FR, s.day, 0, 0)

\* convert_date_format: the pattern with microseconds, then the one without.
convert_date_format(c) ==
    IF Strptime(StrDate(c), Fmt_ISO_Micro) THEN StrftimeFR(StrDate(c))
    ELSE IF Strptime(StrDate(c), Fmt_ISO) THEN StrftimeFR(StrDate(c))
    ELSE NaNCell

SecondsOfDay == {0, 45296}
Microseconds == {0, 500000}
DateStrings ==
    {DateString(Fmt_ISO_Micro, d, s, u) :
        d \in SheetDates \cup Today, s \in SecondsOfDay, u \in Microseconds}
    \cup {DateString(Fmt_ISO, d, s, 0) : d \in SheetDates \cup Today, s \in SecondsOfDay}
    \cup {DateString(f, d, 0, 0) : f \in {Fmt_ISO_Date, Fmt_FR}, d \in SheetDates \cup Today}
    \cup {Timestamp(d, s, u) :
            d \in SheetDates \cup Today, s \in SecondsOfDay, u \in Microseconds}
    \cup {NaNCell}

InitDates ==
    /\ date_str \in DateStrings
    /\ converted = Idle
    /\ num_serie = NaNCell /\ statut = Idle
    /\ MergeIdle /\ TTFIdle /\ LireIdle

\* "Convertir les dates": df[col].apply(convert_date_format) on a cell of a
\* selected column.  The column is offered when one of its cells holds a
\* date and time in ISO form; its other cells hold anything.
lire_ConvertDate ==
    /\ converted.st = "idle"
    /\ converted' = [st |-> "once", once |-> convert_date_format(date_str)]
    /\ UNCHANGED <<date_str, num_serie, statut, notSerial>>

NextDates == lire_ConvertDate

SpecDates == InitDates /\ [][NextDates]_vars

\* The cell holds a text that convert_date_format gives as its result.
IsOwnOutput(c) ==
    c # NaNCell /\ \E d \in DateStrings : convert_date_format(d) = c

\* C17: convert_date_format applied to a cell that holds its own non-null
\* output, the canonical form 'dd/mm/YYYY', gives that same date, not null.
Cex_C17 ==
    (converted.st = "once" /\ IsOwnOutput(date_str)) =>
        /\ converted.once # NaNCell
        /\ converted.once = date_str

-----------------------------------------------------------------------------
(* vf1.py, data1.py, data.py : the figures shown for a prepared and        *)
(* filtered table.  A number of months is the pair <<numerator, 3044>>; a  *)
(* displayed figure is a number of hundredths or of tenths, 'N/A', or nan. *)

MaxStatRows == 2

Filiales == <<"F1", "F2">>
\* Rows of the filtered table, with the columns the figures are made from
\* (data.py calls the last two Time_to_Failure_months and
\* Age_depuis_fabrication_months).
StatRows == [SN : {NULL, "0118001"}, filiale : Range(Filiales) \cup {NULL},
             Time_to_Failure : {NaN, Months(Num(31)), Months(Num(485))},
             Age_fabrication : {NaN, Months(Num(2922))}]

NA == [kind |-> "N/A"]
NaNValue == [kind |-> "nan"]
IntValue(n) == [kind |-> "int", n |-> n]
\* A float shown with `decimals` decimals: its value in units of 10^-decimals.
Rounded(units, decimals) == [kind |-> "float", units |-> units, decimals |-> decimals]

\* The non-null cells of a float column.
NotNa(col) == SelectSeq(col, LAMBDA x : x # NaN)
RECURSIVE SumNumerators(_)
SumNumerators(col) == IF col = <<>> THEN 0 ELSE Head(col)[1] + SumNumerators(Tail(col))
RECURSIVE MaxNumerator(_)
MaxNumerator(col) ==
    IF Len(col) = 1 THEN col[1][1]
    ELSE LET m == MaxNumerator(Tail(col)) IN IF col[1][1] > m THEN col[1][1] ELSE m
RECURSIVE MinNumerator(_)
MinNumerator(col) ==
    IF Len(col) = 1 THEN col[1][1]
    ELSE LET m == MinNumerator(Tail(col)) IN IF col[1][1] < m THEN col[1][1] ELSE m

\* round(num / den, decimals), in units of 10^-decimals (scale = 10^decimals).
RoundUnits(num, den, scale) == (2 * scale * num + den) \div (2 * den)
\* Series.mean(), .max(), .min() of a column of months, rounded: NaN is
\* skipped, and the result is nan when every cell is NaN.
MeanRounded(col, scale, decimals) ==
    IF NotNa(col) = <<>> THEN NaNValue
    ELSE Rounded(RoundUnits(SumNumerators(NotNa(col)), 3044 * Len(NotNa(col)), scale),
                 decimals)
MaxRounded(col, scale, decimals) ==
    IF NotNa(col) = <<>> THEN NaNValue
    ELSE Rounded(RoundUnits(MaxNumerator(NotNa(col)), 3044, scale), decimals)
MinRounded(col, scale, decimals) ==
    IF NotNa(col) = <<>> THEN NaNValue
    ELSE Rounded(RoundUnits(MinNumerator(NotNa(col)), 3044, scale), decimals)

\* Keys of groupby('filiale'): the non-null values, each once, sorted.
FilialeKeys(t) ==
    SelectSeq(Filiales, LAMBDA f : \E i \in 1..Len(t) : t[i].filiale = f)
FilialeGroup(t, f) == SelectSeq(t, LAMBDA r : r.filiale = f)

\* sort_values('Nombre', ascending=False): the orders in which no bucket
\* comes before one with a larger Nombre.
SortByNombreDesc(table) ==
    {s \in Reorderings(table) :
        \A i, j \in 1..Len(s) : i < j => s[i].Nombre >= s[j].Nombre}

\* vf1.show_filiale_table: one bucket.
vf1_Bucket(t, f) ==
    LET g == FilialeGroup(t, f)
        ttf == Column(g, "Time_to_Failure")
    IN [filiale |-> f,
        Nombre |-> Len(NonNull(Column(g, "SN"))),
        TTF_moyen |-> IF NotNa(ttf) # <<>> THEN MeanRounded(ttf, 100, 2) ELSE NA,
        TTF_max |-> IF NotNa(ttf) # <<>> THEN MaxRounded(ttf, 100, 2) ELSE NA,
        TTF_min |-> IF NotNa(ttf) # <<>> THEN MinRounded(ttf, 100, 2) ELSE NA,
        Age_moyen |-> MeanRounded(Column(g, "Age_fabrication"), 100, 2)]
vf1_show_filiale_table(t) ==
    SortByNombreDesc([i \in 1..Len(FilialeKeys(t)) |-> vf1_Bucket(t, FilialeKeys(t)[i])])

\* data.create_filiale_table
data_Bucket(t, f) ==
    LET g == FilialeGroup(t, f)
    IN [filiale |-> f,
        Nombre |-> Len(NonNull(Column(g, "SN"))),
        TTF_moyen |-> MeanRounded(Column(g, "Time_to_Failure"), 10, 1),
        Age_moyen |-> MeanRounded(Column(g, "Age_fabrication"), 10, 1)]
create_filiale_table(t) ==
    IF t = <<>> THEN {<<>>}
    ELSE SortByNombreDesc(
             [i \in 1..Len(FilialeKeys(t)) |-> data_Bucket(t, FilialeKeys(t)[i])])

\* data1.show_key_metrics: the four figures, floats shown with one decimal.
data1_show_key_metrics(t) ==
    LET ttf == Column(t, "Time_to_Failure")
    IN [analyses |-> IntValue(Len(t)),
        avec_incidents |-> IntValue(Len(NotNa(ttf))),
        max_ttf |-> IF NotNa(ttf) # <<>> THEN MaxRounded(ttf, 10, 1) ELSE IntValue(0),
        age_moyen |-> MeanRounded(Column(t, "Age_fabrication"), 10, 1)]

InitStats ==
    /\ df \in SeqsUpTo(StatRows, MaxStatRows)
    /\ prepared = Idle
    /\ MergeIdle /\ SerialIdle /\ LireIdle

\* show_filiale_table of vf1.py, the function as it is written (vf1.py does
\* not compile, see vf1_Script), called on a prepared table.
vf1_ShowFilialeTable ==
    /\ prepared.st = "idle"
    /\ \E table \in vf1_show_filiale_table(df) :
         prepared' = [st |-> "ok", by |-> "vf1.show_filiale_table", table |-> table]
    /\ UNCHANGED <<df, notTTF>>

data_CreateFilialeTable ==
    /\ prepared.st = "idle"
    /\ \E table \in create_filiale_table(df) :
         prepared' = [st |-> "ok", by |-> "data.create_filiale_table", table |-> table]
    /\ UNCHANGED <<df, notTTF>>

data1_ShowKeyMetrics ==
    /\ prepared.st = "idle"
    /\ prepared' = [st |-> "ok", by |-> "data1.show_key_metrics",
                    metrics |-> data1_show_key_metrics(df)]
    /\ UNCHANGED <<df, notTTF>>

NextStats == vf1_ShowFilialeTable \/ data_CreateFilialeTable \/ data1_ShowKeyMetrics

SpecStats == InitStats /\ [][NextStats]_vars

\* A figure shown as undefined.
Undefined(v) == v.kind \in {"N/A", "nan"}
\* No record of the table has a time to failure.
NoTTF(t) == \A i \in 1..Len(t) : t[i].Time_to_Failure = NaN

\* C18: the time-to-failure figures of a filiale bucket of
\* vf1.show_filiale_table, and those of data1.show_key_metrics for the whole
\* table, are shown as undefined when no record aggregated has a time to
\* failure: never as 0.
Cex_C18 ==
    /\ (prepared.st = "ok" /\ prepared.by = "vf1.show_filiale_table") =>
          \A i \in 1..Len(prepared.table) :
              LET b == prepared.table[i]
              IN NoTTF(FilialeGroup(df, b.filiale)) =>
                   Undefined(b.TTF_moyen) /\ Undefined(b.TTF_max) /\ Undefined(b.TTF_min)
    /\ (prepared.st = "ok" /\ prepared.by = "data1.show_key_metrics" /\ NoTTF(df)) =>
          Undefined(prepared.metrics.max_ttf)

RECURSIVE SumNombre(_)
SumNombre(table) == IF table = <<>> THEN 0 ELSE Head(table).Nombre + SumNombre(Tail(table))

\* C19: the filiale table of vf1.py and of data.py has exactly one bucket per
\* filiale value of the records, each bucket counts the records of its
\* filiale, and the counts add up to the number of records.
Cex_C19 ==
    (/\ prepared.st = "ok"
     /\ prepared.by \in {"vf1.show_filiale_table", "data.create_filiale_table"}) =>
        /\ \A i, j \in 1..Len(prepared.table) :
             i # j => prepared.table[i].filiale # prepared.table[j].filiale
        /\ {prepared.table[i].filiale : i \in 1..Len(prepared.table)}
             = {df[i].filiale : i \in 1..Len(df)}
        /\ \A i \in 1..Len(prepared.table) :
             prepared.table[i].Nombre
               = Len(FilialeGroup(df, prepared.table[i].filiale))
        /\ SumNombre(prepared.table) = Len(df)

-----------------------------------------------------------------------------
(* vf1.py, data.py, App3.py : what a processing stage does to the table it *)
(* was given.                                                              *)

\* C21: when vf1.clean_and_prepare_data, data.prepare_data or
\* App3.detect_and_convert_dates has returned, the table the caller passed in
\* has the columns and the cell values it had before the call.
Cex_C21 ==
    (prepared.st = "ok" /\ prepared.by \in {"vf1", "data", "App3"}) =>
        prepared.left = prepared.passed

-----------------------------------------------------------------------------
(* App3.py : detect_and_convert_dates on a column of text cells.  A text   *)
(* cell is three numbers written with one separator, "03/04/2020" being    *)
(* <<3, "/", 4, 2020>>, or a text that is no date, or empty.               *)

MaxCells == 2

DateText3(f1, sep, f2, f3) == [f1 |-> f1, sep |-> sep, f2 |-> f2, f3 |-> f3]
Inconnu == [f1 |-> 0, sep |-> "", f2 |-> 0, f3 |-> 0]
EmptyCell == [f1 |-> 0, sep |-> "nan", f2 |-> 0, f3 |-> 0]
Ambiguous == DateText3(3, "/", 4, 2020)
TextCells == {Ambiguous, DateText3(25, "/", 4, 2020), DateText3(4, "/", 25, 2020),
              DateText3(2020, "-", 4, 3), DateText3(3, ".", 4, 2020),
              Inconnu, EmptyCell}

\* date_patterns, in the order of the list: the order of the fields and the
\* separator.
date_patterns ==
    << <<"Ymd", "-">>, <<"dmY", "/">>, <<"mdY", "/">>, <<"Ymd", "/">>,
       <<"dmY", "-">>, <<"mdY", "-">>, <<"Ymd", "-">>,
       <<"dmY", ".">>, <<"mdY", ".">>, <<"Ymd", ".">> >>

DaysInMonth(y, m) ==
    IF m = 2 THEN (IF y % 4 = 0 /\ (y % 100 # 0 \/ y % 400 = 0) THEN 29 ELSE 28)
    ELSE IF m \in {4, 6, 9, 11} THEN 30 ELSE 31
\* %Y takes four digits, %m and %d one or two.
ValidDate(y, m, d) ==
    /\ y \in 1000..9999 /\ m \in 1..12 /\ d \in 1..DaysInMonth(y, m)

\* The year, month and day a field order reads in a text cell.
FieldsOf(c, order) ==
    CASE order = "Ymd" -> [y |-> c.f1, m |-> c.f2, d |-> c.f3]
      [] order = "dmY" -> [y |-> c.f3, m |-> c.f2, d |-> c.f1]
      [] order = "mdY" -> [y |-> c.f3, m |-> c.f1, d |-> c.f2]

\* One cell under one pattern: the day number, NaT for an empty cell, BadDate
\* when the text does not match (to_datetime raises).
ParseCell(c, pattern) ==
    IF c = EmptyCell THEN NaT
    ELSE LET f == FieldsOf(c, pattern[1])
         IN IF c.sep = pattern[2] /\ ValidDate(f.y, f.m, f.d)
            THEN DaysFromCivil(f.y, f.m, f.d) ELSE BadDate

\* pd.to_datetime(df[col], format=pattern, errors='raise') does not raise.
PatternFits(cells, pattern) ==
    \A i \in 1..Len(cells) : ParseCell(cells[i], pattern) # BadDate

\* The field order the permissive parse takes for one text: year first when
\* the text starts with the year, else month first when that is a date, else
\* day first.
GuessOrder(c) ==
    IF c.f1 >= 1000 THEN "Ymd"
    ELSE IF ValidDate(c.f3, c.f1, c.f2) THEN "mdY" ELSE "dmY"
PermissiveCell(c) ==
    IF c \in {EmptyCell, Inconnu} THEN NaT
    ELSE ToDatetimeCoerce(ParseCell(c, <<GuessOrder(c), c.sep>>))
\* pd.to_datetime(df[col], errors='coerce') : depending on the pandas release,
\* each cell is parsed on its own, or the format is guessed from the first
\* non-empty cell and the cells that do not follow it become NaT.
PermissiveParse(cells) ==
    LET each == [i \in 1..Len(cells) |-> PermissiveCell(cells[i])]
        filled == SelectSeq(cells, LAMBDA c : c # EmptyCell)
        first == filled[1]
        guessed == [i \in 1..Len(cells) |->
                      ToDatetimeCoerce(ParseCell(cells[i], <<GuessOrder(first), first.sep>>))]
    IN IF filled = <<>> \/ first = Inconnu THEN {each} ELSE {each, guessed}

\* The loop body of detect_and_convert_dates for one column of text: the set
\* of results [cells, isdate].
DetectTextColumn(cells) ==
    LET fits == {k \in 1..Len(date_patterns) : PatternFits(cells, date_patterns[k])}
        k0 == CHOOSE k \in fits : \A j \in fits : k <= j
    IN IF fits # {}
       THEN {[cells |-> [i \in 1..Len(cells) |-> ParseCell(cells[i], date_patterns[k0])],
              isdate |-> TRUE]}
       ELSE {[cells |-> conv, isdate |-> \E i \in 1..Len(conv) : conv[i] # NaT] :
                conv \in PermissiveParse(cells)}

InitDetect ==
    /\ df \in SeqsUpTo([date : TextCells], MaxCells)
    /\ prepared = Idle
    /\ MergeIdle /\ SerialIdle /\ LireIdle

\* detect_and_convert_dates of App3.py, the function as it is written (a run
\* of App3.py stops at line 10, see App3_Script), called on a table with one
\* text column: the column is converted in the table passed in.
App3_Detect ==
    /\ prepared.st = "idle"
    /\ \E det \in DetectTextColumn(Column(df, "date")) :
         /\ df' = [i \in 1..Len(df) |-> [date |-> det.cells[i]]]
         /\ prepared' = [st |-> "ok", by |-> "App3.detect_and_convert_dates",
                         passed |-> df, df |-> df',
                         date_cols |-> IF det.isdate THEN {"date"} ELSE {}]
    /\ UNCHANGED notTTF

NextDetect == App3_Detect

SpecDetect == InitDetect /\ [][NextDetect]_vars

\* C22: every cell "03/04/2020" of a column converted by
\* detect_and_convert_dates becomes 3 April 2020, the reading of the first
\* pattern of the list under which that text is a date, whatever the other
\* cells of the column hold.
Cex_C22 ==
    (prepared.st = "ok" /\ prepared.by = "App3.detect_and_convert_dates") =>
        \A i \in 1..Len(prepared.passed) :
            prepared.passed[i].date = Ambiguous =>
                prepared.df[i].date = DaysFromCivil(2020, 4, 3)


\* C23: the number of invalid dates data.prepare_data reports for a date
\* column is the number of cells of that column that held a text which did not
\* parse; the cells that were empty in the sheet are not counted.
Cex_C23 ==
    (prepared.st = "ok" /\ prepared.by = "data") =>
        \A i \in 1..Len(DateCols) :
            prepared.invalid_dates[i]
              = Len(SelectSeq(Column(prepared.passed, DateCols[i]),
                              LAMBDA c : c = BadDate))

\* C27: a column that detect_and_convert_dates does not report in date_cols
\* has the same cells after the call as before it.
Cex_C27 ==
    (prepared.st = "ok" /\ prepared.by = "App3") =>
        \A col \in {"SN"} \cup Range(DateCols) :
            col \notin prepared.date_cols =>
                Column(prepared.left, col) = Column(prepared.passed, col)

-----------------------------------------------------------------------------
(* QQQQ.py and api.py : the installation sheet has one more column, whose  *)
(* name may be the name of a column of the table it is merged with.        *)

\* Names the additional column of Feuil1 can have.
ExtraNames == {"modèle", "RMA", "nombre_incidents"}
InstallRowsWith(name) ==
    {r @@ [c \in {name} |-> "x"] : r \in [serie : Serials, dinst : {10}, dconn : {20}]}
InstallSheets ==
    UNION {UNION {[1..k -> InstallRowsWith(name)] : k \in 1..MaxInstall} :
             name \in ExtraNames}

\* DataFrame.merge renames the columns, other than the key, that both tables
\* have: suffix _x on the left, _y on the right.
RenameCols(r, overlap, suffix) ==
    LET new(c) == IF c \in overlap THEN c \o suffix ELSE c
    IN [d \in {new(c) : c \in DOMAIN r} |-> r[CHOOSE c \in DOMAIN r : new(c) = d]]
\* left.merge(right, on the serial, how='left'), `empty` being a right row
\* with empty cells, lk and rk the dtypes of the two key columns.
LeftMergeSuffixes(left, lk, right, rk, empty) ==
    LET overlap == IF left = <<>> THEN {} ELSE DOMAIN left[1] \cap DOMAIN empty
    IN LeftMerge([i \in 1..Len(left) |-> RenameCols(left[i], overlap, "_x")], lk,
                 [i \in 1..Len(right) |-> RenameCols(right[i], overlap, "_y")], rk,
                 RenameCols(empty, overlap, "_y"))

\* QQQQ.process_data on sheets with any columns: a column the computations
\* read and do not find is a KeyError, which the handler reports as it does
\* the ValueError of a merge.
QQQQ_process_data_columns(inst, inc, ret, now1, now2) ==
    LET i1 == CleanInstall(inst)
        i2 == CleanIncidents(inc)
        i3 == CleanRetours(ret)
        m1 == LeftMergeSuffixes(i1, KeyDtype(i1), incidents_agg(i2), KeyDtype(i2),
                                EmptyIncAgg)
        m2 == IF m1.raised THEN Raised
              ELSE LeftMergeSuffixes(m1.rows, KeyDtype(i1), retours_agg(i3),
                                     KeyDtype(i3), EmptyRetAgg)
    IN IF m2.raised THEN None
       ELSE IF \A i \in 1..Len(m2.rows) :
                 {"nombre_incidents", "nombre_retours", "dinst", "dconn"}
                     \subseteq DOMAIN m2.rows[i]
            THEN Table([i \in 1..Len(m2.rows) |->
                          QQQQ_Calculs(m2.rows[i], now1, now2)])
            ELSE None

api_process_data_columns(df_inst, df_inc, df_rma) ==
    LET m1 == LeftMergeSuffixes(df_inst, KeyDtype(df_inst), df_inc, KeyDtype(df_inc),
                                EmptyInc)
        m2 == IF m1.raised THEN Raised
              ELSE LeftMergeSuffixes(m1.rows, KeyDtype(df_inst), df_rma,
                                     KeyDtype(df_rma), EmptyRma)
    IN IF m2.raised THEN Raised
       ELSE Joined([i \in 1..Len(m2.rows) |-> api_Row(m2.rows[i])])

InitCollide ==
    /\ df_install \in InstallSheets
    /\ df_incidents \in SeqsUpTo([serie : {"S1"}, incident : {"panne"}, dinc : {15}], MaxInc)
    /\ df_retours \in SeqsUpTo([serie : {"S1"}, RMA : {"R1", "R2"}, dret : {18}], MaxRet)
    /\ df_final = Idle
    /\ merged = Idle
    /\ TTFIdle /\ SerialIdle /\ LireIdle

QQQQ_RunColumns ==
    /\ df_final.st = "idle" /\ merged.st = "idle"
    /\ \E now1, now2 \in Clock :
         /\ now1 <= now2
         /\ df_final' = QQQQ_process_data_columns(df_install, df_incidents,
                                                  df_retours, now1, now2)
    /\ UNCHANGED <<df_install, df_incidents, df_retours, merged, notMerge>>

api_RunColumns ==
    /\ merged.st = "idle" /\ df_final.st = "idle"
    /\ \E now \in Clock :
         LET p == api_process_data_columns(df_install, df_incidents, df_retours)
         IN merged' = IF p.raised THEN None
                      ELSE Table(api_Traitement(p.rows, now))
    /\ UNCHANGED <<df_install, df_incidents, df_retours, df_final, notMerge>>

NextCollide == QQQQ_RunColumns \/ api_RunColumns

SpecCollide == InitCollide /\ [][NextCollide]_vars

\* The name of the additional column of the installation sheet.
ExtraOf(r) == CHOOSE c \in DOMAIN r : c \notin {"serie", "dinst", "dconn"}
\* The rows of a merged table keep the installation column under its name and
\* with its values, and no suffixed copy of it.
KeepsPrimary(rows) ==
    \A i \in 1..Len(rows) :
        LET name == ExtraOf(df_install[1])
        IN /\ name \in DOMAIN rows[i]
           /\ \E j \in 1..Len(df_install) :
                /\ df_install[j].serie = rows[i].serie
                /\ df_install[j][name] = rows[i][name]
           /\ DOMAIN rows[i] \cap {name \o "_x", name \o "_y"} = {}

\* C24: when the additional column of the installation sheet has the name of
\* a column of the incident or return table, the merge of QQQQ.py and of
\* api.py completes, the merged table has the installation column under its
\* name with its values, and the other table's column of that name is not kept.
Cex_C24 ==
    /\ df_final.st # "idle" => (df_final.st = "ok" /\ KeepsPrimary(df_final.rows))
    /\ merged.st # "idle" => (merged.st = "ok" /\ KeepsPrimary(merged.rows))

-----------------------------------------------------------------------------
(* réclamation.py : time to failure in days and the MTTF over the serials  *)
(* that occur once.  The sheet has the columns 'Numéro de série', 'Date de *)
(* réclamation' and 'Date d'installation'.                                 *)

MaxClaims == 3

ClaimRows == [serie : {NaNCell, SN_0118001, SN_1318001},
              reclamation : {NaT, D_2019_06_01},
              installation : {NaT, D_2018_01_01, D_2018_02_01}]

\* Series.str[a:b] on one cell: empty stays empty.
StrSlice(c, a, b) == IF c = NaNCell THEN NaNCell ELSE Text(Slice(c.chars, a, b))

\* Lines 33-42: the dates are coerced and TTF is added.
reclamation_TTF(r) ==
    LET rec == ToDatetimeCoerce(r.reclamation)
        inst == ToDatetimeCoerce(r.installation)
    IN [r EXCEPT !.reclamation = rec, !.installation = inst] @@
       [TTF |-> DaysBetween(rec, inst)]

\* Lines 47-54: Mois, Année and Numéro are cut out of the serial.  A sheet
\* with rows whose serial cells are all empty gives a float64 column, on which
\* .str raises AttributeError: the except clause shows the warning and none of
\* the three columns is added.
reclamation_Serie(t) ==
    IF t # <<>> /\ (\A i \in 1..Len(t) : t[i].serie = NaNCell)
    THEN t
    ELSE [i \in 1..Len(t) |-> t[i] @@
            [Mois |-> StrSlice(t[i].serie, 0, 2),
             Annee |-> StrSlice(t[i].serie, 2, 4),
             Numero |-> StrSlice(t[i].serie, 4, 7)]]

\* A mutation: every serial of the column, whatever its number of rows.
all_serials(t) == {t[i].serie : i \in 1..Len(t)} \ {NaNCell}
\* value_counts() leaves the empty cells out; unique_serials is the index of
\* the counts equal to 1.
unique_serials(t) ==
    {s \in {t[i].serie : i \in 1..Len(t)} \ {NaNCell} :
        Len(SelectSeq(t, LAMBDA r : r.serie = s)) = 1}

\* df[df['Numéro de série'].isin(unique_serials)]['TTF'].mean(), rounded to
\* two decimals: a number of hundredths of a day, or nan.
reclamation_mttf(t) ==
    LET ttf == NotNa(Column(SelectSeq(t, LAMBDA r : r.serie \in unique_serials(t)), "TTF"))
    IN IF ttf = <<>> THEN NaNValue
       ELSE Rounded(RoundUnits(SumNumerators(ttf), Len(ttf), 100), 2)

InitClaims ==
    /\ df \in SeqsUpTo(ClaimRows, MaxClaims)
    /\ prepared = Idle
    /\ MergeIdle /\ SerialIdle /\ LireIdle

\* One run of the script on the uploaded sheet.
reclamation_Run ==
    /\ prepared.st = "idle"
    /\ df' = reclamation_Serie([i \in 1..Len(df) |-> reclamation_TTF(df[i])])
    /\ prepared' = [st |-> "ok", by |-> "réclamation", mttf |-> reclamation_mttf(df')]
    /\ UNCHANGED notTTF

NextClaims == reclamation_Run

SpecClaims == InitClaims /\ [][NextClaims]_vars

\* The rows that count for the MTTF: the serial is on no other row, and the
\* time to failure is set.  A row without a serial has no serial number.
CountedRows(t) ==
    {i \in 1..Len(t) :
        /\ t[i].serie # NaNCell
        /\ \A j \in 1..Len(t) : j # i => t[j].serie # t[i].serie
        /\ t[i].TTF # NaN}
RECURSIVE SumTTF(_, _)
SumTTF(t, I) == IF I = {} THEN 0
                ELSE LET i == CHOOSE x \in I : TRUE
                     IN t[i].TTF[1] + SumTTF(t, I \ {i})

\* C25: the MTTF shown by réclamation.py is the mean, to two decimals, of the
\* TTF of the rows whose serial occurs once and whose TTF is set; no row of a
\* serial with two rows or more counts, and with no such row the MTTF is nan.
Thm_C25 ==
    (prepared.st = "ok" /\ prepared.by = "réclamation") =>
        LET I == CountedRows(df)
        IN IF I = {} THEN prepared.mttf = NaNValue
           ELSE /\ prepared.mttf.kind = "float"
                /\ 2 * Cardinality(I) * prepared.mttf.units
                     <= 200 * SumTTF(df, I) + Cardinality(I)
                /\ 2 * Cardinality(I) * (prepared.mttf.units + 1)
                     > 200 * SumTTF(df, I) + Cardinality(I)

\* The script has run on a sheet where one serial has two rows with a TTF,
\* another serial has one row with a TTF, and the MTTF is that row's TTF.
Wit_C25 ==
    /\ prepared.st = "ok" /\ prepared.by = "réclamation"
    /\ Len(df) = 3
    /\ df[1].serie = df[2].serie /\ df[1].serie # NaNCell
    /\ df[1].TTF # NaN /\ df[2].TTF # NaN /\ df[3].TTF # NaN
    /\ df[3].serie \notin {NaNCell, df[1].serie}
    /\ df[1].TTF # df[3].TTF
    /\ prepared.mttf = Rounded(100 * df[3].TTF[1], 2)

-----------------------------------------------------------------------------
(* QQQQ.py : the return summary of a serial with several return rows.      *)

MaxRetours == 2

DatedRetourRows == [serie : {"S1"}, RMA : {"R1", "R2", NULL}, dret : {10, 18}]

InitRetours ==
    /\ df_install \in {<<r>> : r \in [serie : Serials, dinst : {10}, dconn : {20}]}
    /\ df_incidents = <<>>
    /\ df_retours \in SeqsUpTo(DatedRetourRows, MaxRetours)
    /\ df_final = Idle
    /\ merged = Idle
    /\ TTFIdle /\ SerialIdle /\ LireIdle

NextRetours == QQQQ_Run

SpecRetours == InitRetours /\ [][NextRetours]_vars

\* C26: the RMA of a merged row is the RMA of a return row of its serial that
\* carries the last return date reported on the merged row.
Cex_C26 ==
    df_final.st = "ok" =>
        \A i \in 1..Len(df_final.rows) :
            LET r == df_final.rows[i]
            IN r.dernier_retour # NaT =>
                 \E j \in 1..Len(df_retours) :
                     /\ df_retours[j].serie = r.serie
                     /\ df_retours[j].dret = r.dernier_retour
                     /\ df_retours[j].RMA = r.RMA

-----------------------------------------------------------------------------
(* api.py : the four steps of main() over st.session_state.  `merged` is   *)
(* the session: raw_data, col_mapping and processed_data, each None until  *)
(* it is stored; df_install, df_incidents, df_retours are the sheets of    *)
(* the file in the upload widget.                                          *)

Workbooks ==
    [inst : {<<r>> : r \in [serie : {"S1"}, dinst : {10, 12}, dconn : {20, 22}]},
     inc : {<<>>, <<[serie |-> "S1", incident |-> "panne", dinc |-> 15]>>,
            <<[serie |-> NULL, incident |-> "panne", dinc |-> 15]>>},
     rma : {<<>>}]
\* The choice of the select box 'Colonne Date Installation'.
ColMappings == [inst_date : {"dinst", "dconn"}]

NoSession == [st |-> "session", raw_data |-> None, col_mapping |-> None,
              processed_data |-> None]

\* process_data with the installation date column taken from col_mapping.
api_RowMapped(r, col_mapping) ==
    LET di == ToDatetimeCoerce(r[col_mapping.inst_date])
        dc == ToDatetimeCoerce(r.dinc)
        dr == ToDatetimeCoerce(r.dret)
    IN [[r EXCEPT !.dinc = dc, !.dret = dr] EXCEPT ![col_mapping.inst_date] = di]
         @@ [ttf |-> DaysBetween(dc, di)]
api_process_data_mapped(raw_data, col_mapping) ==
    LET m1 == LeftMerge(raw_data.inst, KeyDtype(raw_data.inst),
                        raw_data.inc, KeyDtype(raw_data.inc), EmptyInc)
        m2 == IF m1.raised THEN Raised
              ELSE LeftMerge(m1.rows, KeyDtype(raw_data.inst),
                             raw_data.rma, KeyDtype(raw_data.rma), EmptyRma)
    IN IF m2.raised THEN Raised
       ELSE Joined([i \in 1..Len(m2.rows) |-> api_RowMapped(m2.rows[i], col_mapping)])
\* Lines 204-226: the processed table of one press of "Lancer le traitement",
\* or the exception that the except clause of line 246 reports.
api_Lancer(raw_data, col_mapping, now) ==
    LET p == api_process_data_mapped(raw_data, col_mapping)
    IN IF p.raised THEN Raised
       ELSE Joined([i \in 1..Len(p.rows) |-> p.rows[i] @@
          [serie_valide |-> validate_serial(SerialCellOf(p.rows[i].serie)),
           date_fabrication |-> extract_manufacture_date(SerialCellOf(p.rows[i].serie)),
           age_installation |-> DaysBetween(now, p.rows[i][col_mapping.inst_date])]])

InitSession ==
    /\ df_install = <<>> /\ df_incidents = <<>> /\ df_retours = <<>>
    /\ df_final = Idle
    /\ merged = NoSession
    /\ TTFIdle /\ SerialIdle /\ LireIdle

\* One run of main(): the widget holds a file or not, the select box holds a
\* column, the button was pressed or not.  processed_data is stored at line
\* 228, when the processing did not raise.  Step 4 offers processed_data as it
\* is in the session at the end of the run.
api_Main(upload, choice, pressed, now) ==
    LET raw == IF upload # None THEN upload ELSE merged.raw_data
        mapping == IF raw # None THEN choice ELSE merged.col_mapping
        done == IF mapping # None /\ pressed
                THEN api_Lancer(raw, mapping, now)
                ELSE Raised
        processed == IF done.raised THEN merged.processed_data
                     ELSE Table(done.rows)
    IN /\ merged' = [st |-> "session", raw_data |-> raw, col_mapping |-> mapping,
                     processed_data |-> processed]
       /\ IF upload # None
          THEN /\ df_install' = upload.inst
               /\ df_incidents' = upload.inc
               /\ df_retours' = upload.rma
          ELSE UNCHANGED <<df_install, df_incidents, df_retours>>
       /\ UNCHANGED <<df_final, notMerge>>

api_Rerun ==
    \E upload \in Workbooks \cup {None}, choice \in ColMappings,
       pressed \in BOOLEAN, now \in Clock :
        api_Main(upload, choice, pressed, now)

NextSession == api_Rerun

SpecSession == InitSession /\ [][NextSession]_vars

\* C28: at the end of every run of main(), the processed table offered for
\* export is the one process_data gives for the raw tables and the column
\* mapping held in the session.
Cex_C28 ==
    (merged.st = "session" /\ merged.processed_data # None) =>
        \E now \in Clock :
            LET p == api_Lancer(merged.raw_data, merged.col_mapping, now)
            IN ~p.raised /\ merged.processed_data = Table(p.rows)

-----------------------------------------------------------------------------
(* Données.py : ExcelVisualizationApp over several calls.  `prepared` is   *)
(* the application object: self.df, self.filtered_df, the values offered   *)
(* by the year combobox (texts) and what the last call was; `df` is the    *)
(* sheet of the file last chosen in the dialog.                            *)

AppRows == [SN : {NULL, "0118001"}, FabricationDate : {NaT},
            installationDate : {D_2018_02_01, BadDate},
            incidentDate : {NaT, D_2019_06_01}, Lastconnexion : {NaT}]
\* The files of the dialog: the header has every required column, or lacks
\* 'filiale'; at most one row.
AppFiles == [columns : {Range(Donnees_required_columns),
                        Range(Donnees_required_columns) \ {"filiale"}},
             rows : SeqsUpTo(AppRows, 1)]

\* __init__: the comboboxes are created without values.
NewApp == [st |-> "app", df |-> None, filtered_df |-> None, year_cb |-> {},
           last |-> "init"]

\* load_file on a chosen file: self.df is bound to the sheet as read, then
\* the columns are checked, then prepare_data works on self.df, then
\* update_filters gives the year combobox 'Tous' and the years of the table.
Donnees_load_file(app, file) ==
    LET res == Donnees_prepare_data(file.rows)
    IN IF \E i \in 1..Len(Donnees_required_columns) :
             Donnees_required_columns[i] \notin file.columns
       THEN [app EXCEPT !.df = Table(file.rows), !.last = "load_failed"]
       ELSE IF res.raised
       THEN [app EXCEPT !.df = Table(res.df), !.last = "load_failed"]
       ELSE [app EXCEPT !.df = Table(res.df), !.filtered_df = Table(res.df),
                        !.year_cb = {"Tous"} \cup
                            {ToString(res.df[i].annee) : i \in 1..Len(res.df)},
                        !.last = "load_ok"]

\* apply_filters with the year filter on the value chosen in the combobox, the
\* two other filters being on 'Tous' as update_filters set them:
\* self.filtered_df is a copy of self.df, then the rows of the year; reading
\* the column 'année' of a table that has none is a KeyError, after the copy.
Donnees_apply_filters(app, year) ==
    LET rows == app.df.rows
    IN IF year = "Tous" \/ \E i \in 1..Len(rows) : "annee" \notin DOMAIN rows[i]
       THEN [app EXCEPT !.filtered_df = app.df, !.last = "filter"]
       ELSE [app EXCEPT !.filtered_df = Table(SelectSeq(rows, LAMBDA r : ToString(r.annee) = year)),
                        !.last = "filter"]

InitApp ==
    /\ df = <<>>
    /\ prepared = NewApp
    /\ MergeIdle /\ SerialIdle /\ LireIdle

Donnees_LoadFile ==
    /\ prepared.st = "app"
    /\ \E file \in AppFiles :
         /\ df' = file.rows
         /\ prepared' = Donnees_load_file(prepared, file)
    /\ UNCHANGED notTTF

\* <<ComboboxSelected>> on the year combobox: one of its values is chosen, so
\* the event needs the values a successful load_file has set.
Donnees_ApplyFilters ==
    /\ prepared.st = "app" /\ prepared.df # None
    /\ \E year \in prepared.year_cb :
         prepared' = Donnees_apply_filters(prepared, year)
    /\ UNCHANGED <<df, notTTF>>

\* reset_filters: the filters go back to 'Tous'.
Donnees_ResetFilters ==
    /\ prepared.st = "app" /\ prepared.df # None
    /\ prepared' = [prepared EXCEPT !.filtered_df = prepared.df, !.last = "reset"]
    /\ UNCHANGED <<df, notTTF>>

NextApp == Donnees_LoadFile \/ Donnees_ApplyFilters \/ Donnees_ResetFilters

SpecApp == InitApp /\ [][NextApp]_vars

\* C29: a load_file call that fails leaves self.df and self.filtered_df as
\* they were before the call.
Cex_C29 ==
    [][prepared'.last = "load_failed" =>
          /\ prepared'.df = prepared.df
          /\ prepared'.filtered_df = prepared.filtered_df]_vars

-----------------------------------------------------------------------------
(* lire1.py, lire2.py : the serial-validation section of one run.          *)

\* C30: after a run of lire1.py or lire2.py, when the file has the column
\* 'no de série' the validation was done and every row of the table has a
\* status; when the file lacks it, the run ends normally and the page says
\* that the column is missing.
Cex_C30 ==
    messages.st \in {"done", "raised"} =>
        IF "serie" \in uploaded_file.columns
        THEN /\ messages.st = "done" /\ messages.validation = "faite"
             /\ \A i \in 1..Len(lire_df.rows) :
                  "statut_numero_serie" \in DOMAIN lire_df.rows[i]
        ELSE messages.st = "done" /\ messages.validation = "colonne absente"

====
